---- MODULE Spec2Model ----
(***************************************************************************)
(* Model of the task-execution framework of the automation package:        *)
(*   BaseTask.execute        (automation/base/base_task.py)                *)
(*   BaseAutomation.execute  (automation/base/base_automation.py)          *)
(*   ExecutionResult / ErrorInfo (automation/base/execution_result.py)     *)
(*   StagehandAutomationError    (automation/exceptions.py)                *)
(*                                                                         *)
(* Python values are modelled as follows.  None is the empty tuple and a   *)
(* present optional value x is <<x>>.  A str is a tuple of tokens, so that *)
(* formatting (str(e), f-strings) builds a value that differs from its     *)
(* parts.  A dict is a function from its keys.  A list that is stored by   *)
(* reference in a dict is stored as a reference token and read with Deref. *)
(***************************************************************************)
EXTENDS Integers, Sequences, FiniteSets, TLC

(***************************************************************************)
(* Bounds of the model.                                                    *)
(***************************************************************************)
MaxRetries == 3
MaxExecutes == 2
MaxTaskExecutes == 2

RetryDelays == {1, 2}

(***************************************************************************)
(* Python values.                                                          *)
(***************************************************************************)
None == << >>
Some(x) == << x >>
The(o) == o[1]

EmptyDict == [k \in {} |-> ""]
DictSet(d, key, value) ==
    [k \in (DOMAIN d) \cup {key} |-> IF k = key THEN value ELSE d[k]]

RECURSIVE Pow2(_)
Pow2(n) == IF n <= 0 THEN 1 ELSE 2 * Pow2(n - 1)

(***************************************************************************)
(* Exception classes.  Bases(t) is the set of classes an exception of type *)
(* t is an instance of (its method resolution order).                      *)
(***************************************************************************)
Bases(t) ==
    CASE t = "LoginError" ->
            {"LoginError", "StagehandAutomationError", "Exception"}
      [] t = "StagehandAutomationError" ->
            {"StagehandAutomationError", "Exception"}
      [] t = "TimeoutError" -> {"TimeoutError", "OSError", "Exception"}
      [] t = "ConnectionError" -> {"ConnectionError", "OSError", "Exception"}
      [] t = "FileNotFoundError" -> {"FileNotFoundError", "OSError", "Exception"}
      [] t = "ValueError" -> {"ValueError", "Exception"}
      [] t = "RuntimeError" -> {"RuntimeError", "Exception"}
      [] OTHER -> {t, "Exception"}

\* isinstance(exc, classes) for a tuple of classes
IsInstance(exc, classes) == Bases(exc.type) \cap classes # {}

IsDomainError(exc) == IsInstance(exc, {"StagehandAutomationError"})

\* StagehandAutomationError.__init__ / LoginError.__init__ and the builtin
\* exception constructors: the exception objects the model raises.
NewError(t, code, msg, where) ==
    [type |-> t, error_code |-> code, message |-> msg,
     context |-> EmptyDict, location |-> where,
     errno |-> None, filename |-> None, id |-> 0]

TimeoutErr == NewError("TimeoutError", None, "timed out", "page.py:10 in observe")
ValueErr == NewError("ValueError", None, "Test error", "main.py:25 in automation")
LoginErr == NewError("LoginError", Some("E1001"), "JWT expired", "tasks.py:59 in task")
PlainDomainErr ==
    NewError("StagehandAutomationError", None, "Login verification failed",
             "tasks.py:59 in task")
RuntimeErr == NewError("RuntimeError", None, "Runtime error", "main.py:25 in automation")
LaunchErr == NewError("RuntimeError", None, "browser launch failed", "stagehand.py:1 in init")
CloseErr == NewError("RuntimeError", None, "browser already closed", "stagehand.py:2 in close")

\* str(exc): StagehandAutomationError.__str__ prefixes the error code
Str(exc) ==
    IF IsDomainError(exc) /\ exc.error_code # None
    THEN << "[", The(exc.error_code), "] ", exc.message >>
    ELSE << exc.message >>

VARIABLES
    \* ---- BaseTask instance
    max_retries,          \* self.max_retries
    retry_delay,          \* self.retry_delay
    retry_on_exceptions,  \* self.retry_on_exceptions: None or <<set of classes>>
    execution_stats,      \* self.execution_stats (dict)
    retry_history,        \* self.retry_history (list)
    last_exception,       \* local of execute(): None or <<exception>>
    attempt,              \* loop variable of execute()
    task_pc,              \* where execute() is
    task_raised,          \* the exception execute() raised to its caller
    task_calls,           \* observed: attempt numbers of the task() invocations
    sleep_log             \* observed: the asyncio.sleep(seconds) calls

    ,
    \* ---- BaseAutomation instance
    stagehand,              \* self.stagehand: None or <<session number>>
    stagehand_initialized,  \* self._stagehand_initialized
    execution_result,       \* self.execution_result
    auto_pc,                \* where execute() is
    auto_returned,          \* what the current execute() returned
    auto_raised,            \* what the current execute() raised to its caller
    executes,               \* observed: number of execute() calls so far
    session_log,            \* observed: init / automation / close events
    clock                   \* datetime.now()

    ,
    \* ---- NotificationManager (class attributes, the one instance, callers)
    registry,          \* BaseNotifier._registry: channel names in insertion order
    channel_state,     \* per channel class: "enabled", "disabled" or "broken"
    nm_instance,       \* NotificationManager._instance: None or <<object number>>
    nm_lock,           \* NotificationManager._lock: None or <<holding thread>>
    nm_initialized,    \* hasattr(self, "_initialized")
    notifiers,         \* self.notifiers
    threads,           \* the threads that use the manager
    th_pc,             \* per thread: where its constructor or notify() call is
    th_idx,            \* per thread: position of the loop it is in
    th_ret,            \* per thread: the objects its constructor calls returned
    success_count,     \* local of notify()
    objects_created,   \* observed: number of super().__new__(cls) calls
    init_runs,         \* observed: number of __initialize_notifiers() calls
    send_log,          \* observed: send_notification calls of the current notify()
    summary,           \* observed: the "Notification complete" line, None or <<n, total>>
    notify_raised,     \* observed: what notify() raised to its caller
    notifies           \* observed: number of notify() calls so far

    ,
    \* ---- AutomationApp and the command line
    entry,             \* "main" (python -m automation) or "run_automation" (direct call)
    task_name,         \* the task name given
    app_pc,            \* where main() / run_automation() is
    run_returned,      \* what run_automation returned: None or <<bool>>
    run_raised,        \* what run_automation raised: None or <<exception>>
    exit_code,         \* status the process exits with: None or <<int>>
    instantiations,    \* observed: number of automation_class() calls
    notify_args        \* observed: the results handed to notify()

    ,
    \* ---- a class registry (BaseAutomation._registry or BaseNotifier._registry)
    reg_kind,          \* whose registry: "automation" or "notifier"
    reg_entries,       \* _registry: the (key, class) items in insertion order
    reg_classes,       \* the subclasses defined so far; a class is its position
    reg_raised,        \* what a class statement raised: None or <<exception>>
    reg_view,          \* the dict a get_registry() caller holds: None or <<dict>>
    reg_lookup         \* the last get_task_class call: None or <<[key, found]>>

    ,
    \* ---- the channels and one send_notification call
    enabled_notifiers,     \* config.notification.ENABLED_NOTIFIERS
    channel_access_token,  \* LineNotifier.channel_access_token
    line_bot_api,          \* LineNotifier.line_bot_api: None or <<client>>
    target_ids,            \* LineNotifier.target_ids
    smtp_host,             \* EmailNotifier.smtp_host
    smtp_username,         \* EmailNotifier.smtp_username
    smtp_password,         \* EmailNotifier.smtp_password
    recipients,            \* EmailNotifier.recipients
    chan_pc,               \* where the send_notification call is
    chan_result,           \* the ExecutionResult object the call was handed
    chan_handed,           \* observed: that object's value when it was handed
    chan_message,          \* local `message` of LineNotifier.send_notification
    chan_idx,              \* position of the loop over target_ids
    chan_success,          \* local success_count
    chan_failed,           \* local failed_count
    transport_log,         \* observed: the push_message / SMTP sends
    chan_returned,         \* what send_notification returned: None or <<bool>>
    chan_raised            \* what send_notification raised

    ,
    \* ---- one ExecutionResult used on its own
    res_result,        \* the ExecutionResult
    res_error,         \* observed: the exception of the last set_error
    res_summary        \* what the last get_error_summary() returned

    ,
    \* ---- one StagehandHelper and the LoginTask statement that calls it
    h_max_retries,     \* StagehandHelper.max_retries
    h_op,              \* the method running: "click" or "type"
    h_pc,              \* where the method is
    h_attempt,         \* loop variable `attempt` (0-indexed)
    h_log,             \* observed: attempts, their outcomes and the sleeps
    h_raised,          \* what the method raised: None or <<exception>>
    login_at           \* LoginTask.task(): the statement reached in which attempt

taskVars == << max_retries, retry_delay, retry_on_exceptions, execution_stats,
               retry_history, last_exception, attempt, task_pc, task_raised,
               task_calls, sleep_log >>

autoVars == << stagehand, stagehand_initialized, execution_result, auto_pc,
               auto_returned, auto_raised, executes, session_log, clock >>

nmVars == << registry, channel_state, nm_instance, nm_lock, nm_initialized,
             notifiers, threads, th_pc, th_idx, th_ret, success_count,
             objects_created, init_runs, send_log, summary, notify_raised,
             notifies >>

appVars == << entry, task_name, app_pc, run_returned, run_raised, exit_code,
              instantiations, notify_args >>

regVars == << reg_kind, reg_entries, reg_classes, reg_raised, reg_view,
             reg_lookup >>

\* the program's components, and the library pieces checked on their own
coreVars == << taskVars, autoVars, nmVars, appVars >>
chanVars == << enabled_notifiers, channel_access_token, line_bot_api,
               target_ids, smtp_host, smtp_username, smtp_password, recipients,
               chan_pc, chan_result, chan_handed, chan_message, chan_idx,
               chan_success, chan_failed, transport_log, chan_returned,
               chan_raised >>

resVars == << res_result, res_error, res_summary >>

helperVars == << h_max_retries, h_op, h_pc, h_attempt, h_log, h_raised,
                login_at >>

utilVars == << regVars, chanVars, resVars, helperVars >>

vars == << coreVars, utilVars >>

\* the list the reference token stands for
RetryHistoryRef == "<self.retry_history>"
Deref(v) == IF v = RetryHistoryRef THEN retry_history ELSE v

(***************************************************************************)
(* BaseTask                                                                *)
(***************************************************************************)
\* the retry_on_exceptions arguments the model constructs tasks with:
\* the default None, LoginTask's tuple, and a tuple of the domain base class
RetryOnChoices ==
    { None,
      Some({"TimeoutError", "ConnectionError"}),
      Some({"StagehandAutomationError"}) }

\* the exceptions task() raises in the model
TaskErrors == { TimeoutErr, ValueErr, LoginErr }

\* BaseTask.__init__
TaskInit ==
    /\ max_retries \in 0 .. MaxRetries
    /\ retry_delay \in RetryDelays
    /\ retry_on_exceptions \in RetryOnChoices
    /\ execution_stats = EmptyDict
    /\ retry_history = << >>
    /\ last_exception = None
    /\ attempt = 0
    /\ task_pc = "created"
    /\ task_raised = None
    /\ task_calls = << >>
    /\ sleep_log = << >>

\* BaseTask.should_retry
\* a variant of should_retry that compares the exact type of the exception
should_retry_ExactType(exc) ==
    IF retry_on_exceptions = None
    THEN TRUE
    ELSE exc.type \in The(retry_on_exceptions)

\* BaseTask.should_retry
should_retry(exc) ==
    IF retry_on_exceptions = None
    THEN TRUE
    ELSE IsInstance(exc, The(retry_on_exceptions))

\* the entry execute() appends to retry_history for a failed attempt
HistoryEntry(k, exc) ==
    [attempt |-> k, error_type |-> exc.type, error_message |-> Str(exc)]

\* a variant of ReraisesAtOnce that lost the should_retry check
ReraisesAtOnce_Never(exc) == FALSE

\* `if not self.should_retry(e): raise`
ReraisesAtOnce(exc) == ~ should_retry(exc)

\* a variant of IsFinalAttempt that stops one attempt early
IsFinalAttempt_OneEarly(k) == k >= max_retries - 1

\* `if attempt == self.max_retries: ... break`
IsFinalAttempt(k) == k = max_retries

\* a variant of BackoffDelay that doubles the delay with every attempt
BackoffDelay_Exponential(k) == retry_delay * Pow2(k - 1)

\* the argument of `await asyncio.sleep(...)` after failed attempt k
BackoffDelay(k) == retry_delay

\* a variant of AttachesHistory that compares the exact type
AttachesHistory_ExactType(exc) == exc.type = "StagehandAutomationError"

\* `if isinstance(last_exception, StagehandAutomationError)`
AttachesHistory(exc) == IsDomainError(exc)

\* the exception object raised after the loop, its context updated in place
ExhaustedException(exc) ==
    IF AttachesHistory(exc)
    THEN [exc EXCEPT !.context = DictSet(@, "retry_history", RetryHistoryRef)]
    ELSE exc

\* execute() is called: the for loop is entered; with an empty range the code
\* after the loop runs at once, finds last_exception None and returns
ExecuteBegin ==
    /\ task_pc = "created"
    /\ IF 1 <= max_retries
       THEN /\ attempt' = 1
            /\ task_calls' = Append(task_calls, 1)
            /\ task_pc' = "task"
       ELSE /\ task_pc' = "returned"
            /\ UNCHANGED << attempt, task_calls >>
    /\ UNCHANGED << max_retries, retry_delay, retry_on_exceptions,
                    execution_stats, retry_history, last_exception,
                    task_raised, sleep_log >>
    /\ UNCHANGED << autoVars, nmVars, appVars, utilVars >>

\* a variant of TaskReturns without the return: the loop goes on
TaskReturns_NoReturn ==
    /\ task_pc = "task"
    /\ IF attempt < max_retries
       THEN /\ attempt' = attempt + 1
            /\ task_calls' = Append(task_calls, attempt + 1)
            /\ task_pc' = "task"
       ELSE /\ task_pc' = "returned"
            /\ UNCHANGED << attempt, task_calls >>
    /\ UNCHANGED << max_retries, retry_delay, retry_on_exceptions,
                    execution_stats, retry_history, last_exception,
                    task_raised, sleep_log >>
    /\ UNCHANGED << autoVars, nmVars, appVars, utilVars >>

\* `await self.task()` returns: execute() returns
TaskReturns ==
    /\ task_pc = "task"
    /\ task_pc' = "returned"
    /\ UNCHANGED << max_retries, retry_delay, retry_on_exceptions,
                    execution_stats, retry_history, last_exception, attempt, task_raised,
                    task_calls, sleep_log >>
    /\ UNCHANGED << autoVars, nmVars, appVars, utilVars >>

\* `await self.task()` raises e: the except block, and the code after the
\* loop when the loop is left by break; stats is execution_stats as task()
\* left it
TaskRaisesWith(e, stats) ==
    /\ task_pc = "task"
    /\ LET exc == [e EXCEPT !.id = attempt] IN
       /\ last_exception' = Some(exc)
       /\ retry_history' = Append(retry_history, HistoryEntry(attempt, exc))
       /\ IF ReraisesAtOnce(exc)
          THEN \* raise
               /\ task_raised' = Some(exc)
               /\ task_pc' = "raised"
               /\ execution_stats' = stats
               /\ UNCHANGED sleep_log
          ELSE IF IsFinalAttempt(attempt)
          THEN \* break; if last_exception: ...; raise last_exception
               /\ execution_stats' =
                      DictSet(stats, "retry_history", RetryHistoryRef)
               /\ task_raised' = Some(ExhaustedException(exc))
               /\ task_pc' = "raised"
               /\ UNCHANGED sleep_log
          ELSE \* await asyncio.sleep(...)
               /\ sleep_log' = Append(sleep_log,
                                      [after |-> attempt,
                                       seconds |-> BackoffDelay(attempt)])
               /\ task_pc' = "sleep"
               /\ execution_stats' = stats
               /\ UNCHANGED task_raised
    /\ UNCHANGED << max_retries, retry_delay, retry_on_exceptions, attempt,
                    task_calls >>
    /\ UNCHANGED << autoVars, nmVars, appVars, utilVars >>

\* a task() that does not write execution_stats raises e
TaskRaises(e) == TaskRaisesWith(e, execution_stats)

\* asyncio.sleep returns: the next iteration of the loop calls task() again
SleepReturns ==
    /\ task_pc = "sleep"
    /\ attempt' = attempt + 1
    /\ task_calls' = Append(task_calls, attempt + 1)
    /\ task_pc' = "task"
    /\ UNCHANGED << max_retries, retry_delay, retry_on_exceptions,
                    execution_stats, retry_history, last_exception,
                    task_raised, sleep_log >>
    /\ UNCHANGED << autoVars, nmVars, appVars, utilVars >>

TaskNext ==
    \/ ExecuteBegin
    \/ TaskReturns
    \/ \E e \in TaskErrors : TaskRaises(e)
    \/ SleepReturns

\* the execute() calls made so far that reached task()
ExecutesStarted == Cardinality({ i \in DOMAIN task_calls : task_calls[i] = 1 })

\* execute() is called again on the same instance: the local last_exception
\* starts as None and the loop starts at attempt 1; self.retry_history and
\* self.execution_stats are assigned in __init__ only and are left as they are
ExecuteAgain ==
    /\ task_pc \in {"returned", "raised"}
    /\ ExecutesStarted < MaxTaskExecutes
    /\ last_exception' = None
    /\ task_raised' = None
    /\ IF 1 <= max_retries
       THEN /\ attempt' = 1
            /\ task_calls' = Append(task_calls, 1)
            /\ task_pc' = "task"
       ELSE /\ task_pc' = "returned"
            /\ UNCHANGED << attempt, task_calls >>
    /\ UNCHANGED << max_retries, retry_delay, retry_on_exceptions,
                    execution_stats, retry_history, sleep_log >>
    /\ UNCHANGED << autoVars, nmVars, appVars, utilVars >>

ReexecuteNext ==
    \/ ExecuteBegin
    \/ TaskReturns
    \/ \E e \in TaskErrors : TaskRaises(e)
    \/ SleepReturns
    \/ ExecuteAgain

(***************************************************************************)
(* ErrorInfo and ExecutionResult                                           *)
(***************************************************************************)
\* ErrorInfo.from_exception
from_exception(exc) ==
    LET copied == IF IsDomainError(exc) THEN exc.context ELSE EmptyDict
        with_errno ==
            IF IsInstance(exc, {"OSError"}) /\ exc.errno # None
            THEN DictSet(copied, "errno", The(exc.errno))
            ELSE copied
        with_filename ==
            IF IsInstance(exc, {"OSError"}) /\ exc.filename # None
            THEN DictSet(with_errno, "filename", The(exc.filename))
            ELSE with_errno
    IN  [message |-> Str(exc),
         error_code |-> IF IsDomainError(exc) THEN exc.error_code ELSE None,
         error_type |-> exc.type,
         location |-> exc.location,
         stack_trace |-> << "Traceback", exc.location, exc.type, Str(exc) >>,
         context |-> with_filename]

\* ExecutionResult(task_name=...)
NewExecutionResult(name, now) ==
    [task_name |-> name, success |-> TRUE, error_message |-> None,
     details |-> EmptyDict, start_time |-> now, end_time |-> None,
     error_info |-> None]

\* ExecutionResult.add_detail
add_detail(result, key, value) ==
    [result EXCEPT !.details = DictSet(@, key, value)]

\* a variant of set_error that records only the message (the legacy path)
set_error_MessageOnly(result, exc) ==
    [result EXCEPT !.success = FALSE, !.error_message = Some(Str(exc))]

\* ExecutionResult.set_error
set_error(result, exc) ==
    [result EXCEPT !.success = FALSE,
                   !.error_message = Some(Str(exc)),
                   !.error_info = Some(from_exception(exc))]

(***************************************************************************)
(* BaseAutomation                                                          *)
(***************************************************************************)
\* the exceptions automation(), Stagehand.init() and Stagehand.close() raise
AutomationErrors == { ValueErr, RuntimeErr, LoginErr }
InitErrors == { LaunchErr }
CloseErrors == { CloseErr }

DetailValues == { "Success", "Failed" }

\* BaseAutomation.__init__
AutoInit ==
    /\ stagehand = None
    /\ stagehand_initialized = FALSE
    /\ execution_result = NewExecutionResult("Example", 0)
    /\ auto_pc = "created"
    /\ auto_returned = None
    /\ auto_raised = None
    /\ executes = 0
    /\ session_log = << >>
    /\ clock = 0

\* an entry of session_log: what happened in which execute() call, and the
\* exception when one was raised
Event(name, exc) == [run |-> executes, ev |-> name, exc |-> exc]

\* a variant of ShouldClose that releases the session only after a success
ShouldClose_OnlyOnSuccess ==
    stagehand # None /\ stagehand_initialized /\ execution_result.success

\* __close_stagehand: `if self.stagehand and self._stagehand_initialized`
ShouldClose == stagehand # None /\ stagehand_initialized

\* a variant of Finally that stamps end_time only when the run succeeded
Finally_EndTimeOnSuccess(result, outcome) ==
    /\ clock' = clock + 1
    /\ execution_result' =
           IF result.success THEN [result EXCEPT !.end_time = Some(clock + 1)]
           ELSE result
    /\ LET stamp == IF result.success THEN << Event("end_time", None) >> ELSE << >>
       IN IF ShouldClose
          THEN /\ session_log' =
                      session_log \o << outcome >> \o stamp \o << Event("close", None) >>
               /\ auto_pc' = "releasing"
               /\ auto_returned' = None
          ELSE /\ session_log' = session_log \o << outcome >> \o stamp
               /\ auto_pc' = "completed"
               /\ auto_returned' = Some(execution_result')

\* the finally block of execute() up to `await self.stagehand.close()`, and
\* the return when __close_stagehand has nothing to close; `result` is the
\* result as the try/except part left it and `outcome` the event that ended
\* the try part
Finally(result, outcome) ==
    /\ clock' = clock + 1
    /\ execution_result' = [result EXCEPT !.end_time = Some(clock + 1)]
    /\ IF ShouldClose
       THEN /\ session_log' =
                   session_log \o << outcome, Event("end_time", None),
                                     Event("close", None) >>
            /\ auto_pc' = "releasing"
            /\ auto_returned' = None
       ELSE /\ session_log' = session_log \o << outcome, Event("end_time", None) >>
            /\ auto_pc' = "completed"
            /\ auto_returned' = Some(execution_result')

\* execute() is called: __init_stagehand constructs the session and awaits
\* init(), or does nothing on an initialised instance, and then automation()
\* is awaited
AutomationExecuteBegin ==
    /\ auto_pc \in {"created", "completed", "raised"}
    /\ executes < MaxExecutes
    /\ executes' = executes + 1
    /\ auto_returned' = None
    /\ auto_raised' = None
    /\ IF ~ stagehand_initialized
       THEN /\ stagehand' = Some(executes + 1)
            /\ session_log' =
                   Append(session_log,
                          [run |-> executes + 1, ev |-> "init", exc |-> None])
            /\ auto_pc' = "acquiring"
       ELSE /\ stagehand' = stagehand
            /\ session_log' =
                   Append(session_log,
                          [run |-> executes + 1, ev |-> "automation", exc |-> None])
            /\ auto_pc' = "running"
    /\ UNCHANGED << stagehand_initialized, execution_result, clock >>
    /\ UNCHANGED << taskVars, nmVars, appVars, utilVars >>

\* `await self.stagehand.init()` returns; automation() is awaited
InitReturns ==
    /\ auto_pc = "acquiring"
    /\ stagehand_initialized' = TRUE
    /\ session_log' =
           session_log \o << Event("init_done", None), Event("automation", None) >>
    /\ auto_pc' = "running"
    /\ UNCHANGED << stagehand, execution_result, auto_returned, auto_raised,
                    executes, clock >>
    /\ UNCHANGED << taskVars, nmVars, appVars, utilVars >>

\* `await self.stagehand.init()` raises e: except block, finally block
InitRaises(e) ==
    /\ auto_pc = "acquiring"
    /\ Finally(set_error(execution_result, e), Event("init_failed", Some(e)))
    /\ UNCHANGED << stagehand, stagehand_initialized, auto_raised, executes >>
    /\ UNCHANGED << taskVars, nmVars, appVars, utilVars >>

\* automation() records a detail (as Example.automation does)
AutomationAddsDetail(v) ==
    /\ auto_pc = "running"
    /\ execution_result' = add_detail(execution_result, "Login Status", v)
    /\ execution_result' # execution_result
    /\ UNCHANGED << stagehand, stagehand_initialized, auto_pc, auto_returned,
                    auto_raised, executes, session_log, clock >>
    /\ UNCHANGED << taskVars, nmVars, appVars, utilVars >>

\* a variant of AutomationReturns that marks the result successful
AutomationReturns_MarksSuccess ==
    /\ auto_pc = "running"
    /\ Finally([execution_result EXCEPT !.success = TRUE,
                                        !.error_message = None,
                                        !.error_info = None],
               Event("automation_returned", None))
    /\ UNCHANGED << stagehand, stagehand_initialized, auto_raised, executes >>
    /\ UNCHANGED << taskVars, nmVars, appVars, utilVars >>

\* `await self.automation()` returns: finally block
AutomationReturns ==
    /\ auto_pc = "running"
    /\ Finally(execution_result, Event("automation_returned", None))
    /\ UNCHANGED << stagehand, stagehand_initialized, auto_raised, executes >>
    /\ UNCHANGED << taskVars, nmVars, appVars, utilVars >>

\* `await self.automation()` raises e: except block, finally block
AutomationRaises(e) ==
    /\ auto_pc = "running"
    /\ Finally(set_error(execution_result, e), Event("automation_raised", Some(e)))
    /\ UNCHANGED << stagehand, stagehand_initialized, auto_raised, executes >>
    /\ UNCHANGED << taskVars, nmVars, appVars, utilVars >>

\* `await self.stagehand.close()` returns: the flag is reset and execute()
\* returns self.execution_result
CloseReturns ==
    /\ auto_pc = "releasing"
    /\ stagehand_initialized' = FALSE
    /\ session_log' = Append(session_log, Event("close_done", None))
    /\ auto_pc' = "completed"
    /\ auto_returned' = Some(execution_result)
    /\ clock' = clock + 1
    /\ UNCHANGED << stagehand, execution_result, auto_raised, executes >>
    /\ UNCHANGED << taskVars, nmVars, appVars, utilVars >>

\* `await self.stagehand.close()` raises e inside the finally block: the
\* exception leaves execute()
CloseRaises(e) ==
    /\ auto_pc = "releasing"
    /\ session_log' = Append(session_log, Event("close_failed", Some(e)))
    /\ auto_pc' = "raised"
    /\ auto_raised' = Some(e)
    /\ clock' = clock + 1
    /\ UNCHANGED << stagehand, stagehand_initialized, execution_result,
                    auto_returned, executes >>
    /\ UNCHANGED << taskVars, nmVars, appVars, utilVars >>

AutoNext ==
    \/ AutomationExecuteBegin
    \/ InitReturns
    \/ \E e \in InitErrors : InitRaises(e)
    \/ \E v \in DetailValues : AutomationAddsDetail(v)
    \/ AutomationReturns
    \/ \E e \in AutomationErrors : AutomationRaises(e)
    \/ CloseReturns
    \/ \E e \in CloseErrors : CloseRaises(e)

(***************************************************************************)
(* NotificationManager: the singleton constructor (__new__, __init__,      *)
(* __initialize_notifiers) and notify().  A step of a thread is a piece of *)
(* the code between two points where another thread can run.  The manager  *)
(* holds one object (objects_created counts them), whose attributes are    *)
(* nm_initialized and notifiers.                                           *)
(***************************************************************************)
MaxConstructs == 2      \* constructor calls per thread
MaxNotifies == 2        \* notify() calls

ChannelClasses == {"email", "line", "test"}
ChannelStates == {"enabled", "disabled", "broken"}

\* the orders in which the channel modules can have been imported
RegistryOrders ==
    { s \in [1 .. Cardinality(ChannelClasses) -> ChannelClasses] :
        \A i, j \in DOMAIN s : s[i] = s[j] => i = j }

SmtpErr == NewError("ConnectionError", None, "smtp down", "email_notifier.py:60 in send_notification")
SendErrors == {RuntimeErr, SmtpErr}

NMInit(ths) ==
    /\ registry \in RegistryOrders
    /\ channel_state \in [ChannelClasses -> ChannelStates]
    /\ nm_instance = None
    /\ nm_lock = None
    /\ nm_initialized = FALSE
    /\ notifiers = << >>
    /\ threads = ths
    /\ th_pc = [t \in ths |-> "idle"]
    /\ th_idx = [t \in ths |-> 0]
    /\ th_ret = [t \in ths |-> << >>]
    /\ success_count = 0
    /\ objects_created = 0
    /\ init_runs = 0
    /\ send_log = << >>
    /\ summary = None
    /\ notify_raised = None
    /\ notifies = 0

Goto(t, label) == th_pc' = [th_pc EXCEPT ![t] = label]

\* NotificationManager(): the call begins
ConstructBegin(t) ==
    /\ th_pc[t] = "idle"
    /\ Len(th_ret[t]) < MaxConstructs
    /\ Goto(t, "new_check")
    /\ UNCHANGED << registry, channel_state, nm_instance, nm_lock,
                    nm_initialized, notifiers, threads, th_idx, th_ret,
                    success_count, objects_created, init_runs, send_log,
                    summary, notify_raised, notifies >>
    /\ UNCHANGED << taskVars, autoVars, appVars, utilVars >>

\* __new__: the first, unlocked `if cls._instance is None`
NewCheck(t) ==
    /\ th_pc[t] = "new_check"
    /\ Goto(t, IF nm_instance = None THEN "new_lock" ELSE "init_check")
    /\ UNCHANGED << registry, channel_state, nm_instance, nm_lock,
                    nm_initialized, notifiers, threads, th_idx, th_ret,
                    success_count, objects_created, init_runs, send_log,
                    summary, notify_raised, notifies >>
    /\ UNCHANGED << taskVars, autoVars, appVars, utilVars >>

\* __new__: `with cls._lock:` acquires the lock
NewAcquire(t) ==
    /\ th_pc[t] = "new_lock"
    /\ nm_lock = None
    /\ nm_lock' = Some(t)
    /\ Goto(t, "new_locked")
    /\ UNCHANGED << registry, channel_state, nm_instance, nm_initialized,
                    notifiers, threads, th_idx, th_ret, success_count,
                    objects_created, init_runs, send_log, summary,
                    notify_raised, notifies >>
    /\ UNCHANGED << taskVars, autoVars, appVars, utilVars >>

\* __new__: the second check under the lock, the creation, the release
NewLocked(t) ==
    /\ th_pc[t] = "new_locked"
    /\ IF nm_instance = None
       THEN /\ nm_instance' = Some(objects_created + 1)
            /\ objects_created' = objects_created + 1
       ELSE UNCHANGED << nm_instance, objects_created >>
    /\ nm_lock' = None
    /\ Goto(t, "init_check")
    /\ UNCHANGED << registry, channel_state, nm_initialized, notifiers,
                    threads, th_idx, th_ret, success_count, init_runs,
                    send_log, summary, notify_raised, notifies >>
    /\ UNCHANGED << taskVars, autoVars, appVars, utilVars >>

\* __init__: `if hasattr(self, "_initialized"): return`
AlreadyInitialized_Never == FALSE
AlreadyInitialized == nm_initialized

InitCheck(t) ==
    /\ th_pc[t] = "init_check"
    /\ IF AlreadyInitialized
       THEN /\ th_ret' = [th_ret EXCEPT ![t] = Append(@, The(nm_instance))]
            /\ Goto(t, "idle")
       ELSE /\ Goto(t, "init_assign")
            /\ UNCHANGED th_ret
    /\ UNCHANGED << registry, channel_state, nm_instance, nm_lock,
                    nm_initialized, notifiers, threads, th_idx,
                    success_count, objects_created, init_runs, send_log,
                    summary, notify_raised, notifies >>
    /\ UNCHANGED << taskVars, autoVars, appVars, utilVars >>

\* __init__: `self.notifiers = []` and the call of __initialize_notifiers
InitAssign(t) ==
    /\ th_pc[t] = "init_assign"
    /\ notifiers' = << >>
    /\ init_runs' = init_runs + 1
    /\ th_idx' = [th_idx EXCEPT ![t] = 1]
    /\ Goto(t, "init_loop")
    /\ UNCHANGED << registry, channel_state, nm_instance, nm_lock,
                    nm_initialized, threads, th_ret, success_count,
                    objects_created, send_log, summary, notify_raised,
                    notifies >>
    /\ UNCHANGED << taskVars, autoVars, appVars, utilVars >>

\* what a channel class raises when its constructor or is_enabled() fails
ChannelInitErr ==
    NewError("ValueError", None, "invalid channel settings",
             "line_notifier.py:20 in __init__")

\* __initialize_notifiers: `except Exception` around one channel class
DiscoveryCatches_Nothing(exc) == FALSE
DiscoveryCatches(exc) == IsInstance(exc, {"Exception"})

\* __initialize_notifiers: `if instance.is_enabled(): self.notifiers.append`
KeepsChannel_UnlessDisabled(state) == state # "disabled"
KeepsChannel(state) == state = "enabled"

\* __initialize_notifiers: one pass of the loop over the registry.  A class
\* that raises in its constructor or in is_enabled() ("broken") is logged
\* and skipped; an exception that is not caught leaves the constructor.
InitLoop(t) ==
    /\ th_pc[t] = "init_loop"
    /\ th_idx[t] <= Len(registry)
    /\ IF channel_state[registry[th_idx[t]]] = "broken"
          /\ ~ DiscoveryCatches(ChannelInitErr)
       THEN /\ Goto(t, "constructor_raised")
            /\ UNCHANGED << notifiers, th_idx >>
       ELSE /\ notifiers' = IF KeepsChannel(channel_state[registry[th_idx[t]]])
                            THEN Append(notifiers, registry[th_idx[t]])
                            ELSE notifiers
            /\ th_idx' = [th_idx EXCEPT ![t] = @ + 1]
            /\ UNCHANGED th_pc
    /\ UNCHANGED << registry, channel_state, nm_instance, nm_lock,
                    nm_initialized, threads, th_ret, success_count,
                    objects_created, init_runs, send_log, summary,
                    notify_raised, notifies >>
    /\ UNCHANGED << taskVars, autoVars, appVars, utilVars >>

\* __init__: `self._initialized = True`; the constructor returns the object
InitDone(t) ==
    /\ th_pc[t] = "init_loop"
    /\ th_idx[t] > Len(registry)
    /\ nm_initialized' = TRUE
    /\ th_ret' = [th_ret EXCEPT ![t] = Append(@, The(nm_instance))]
    /\ Goto(t, "idle")
    /\ UNCHANGED << registry, channel_state, nm_instance, nm_lock,
                    notifiers, threads, th_idx, success_count,
                    objects_created, init_runs, send_log, summary,
                    notify_raised, notifies >>
    /\ UNCHANGED << taskVars, autoVars, appVars, utilVars >>

\* notify: `if not self.notifiers: return`, else `success_count = 0` and the
\* loop begins
NotifyBegin(t) ==
    /\ th_pc[t] = "idle"
    /\ th_ret[t] # << >>
    /\ notifies < MaxNotifies
    /\ notifies' = notifies + 1
    /\ send_log' = << >>
    /\ summary' = None
    /\ notify_raised' = None
    /\ IF notifiers = << >>
       THEN UNCHANGED << th_pc, th_idx, success_count >>
       ELSE /\ success_count' = 0
            /\ th_idx' = [th_idx EXCEPT ![t] = 1]
            /\ Goto(t, "notify_loop")
    /\ UNCHANGED << registry, channel_state, nm_instance, nm_lock,
                    nm_initialized, notifiers, threads, th_ret,
                    objects_created, init_runs >>
    /\ UNCHANGED << taskVars, autoVars, appVars, utilVars >>

Sent(channel, outcome) == [channel |-> channel, outcome |-> outcome]

\* `if notifier.send_notification(result): success_count += 1`
Tally_EveryReturn(count, returned) == count + 1
Tally(count, returned) == IF returned THEN count + 1 ELSE count

\* `except Exception`
NotifyCatches_OnlyOSError(exc) == IsInstance(exc, {"OSError"})
NotifyCatches(exc) == IsInstance(exc, {"Exception"})

\* notify: send_notification of the channel at hand returns true or false
SendReturns(t, returned) ==
    /\ th_pc[t] = "notify_loop"
    /\ th_idx[t] <= Len(notifiers)
    /\ send_log' = Append(send_log,
                          Sent(notifiers[th_idx[t]],
                               IF returned THEN "true" ELSE "false"))
    /\ success_count' = Tally(success_count, returned)
    /\ th_idx' = [th_idx EXCEPT ![t] = @ + 1]
    /\ UNCHANGED << registry, channel_state, nm_instance, nm_lock,
                    nm_initialized, notifiers, threads, th_pc, th_ret,
                    objects_created, init_runs, summary, notify_raised,
                    notifies >>
    /\ UNCHANGED << taskVars, autoVars, appVars, utilVars >>

\* the list after a channel raised: notify leaves self.notifiers alone
AfterFailedSend_Dropped(list, i) ==
    [k \in 1 .. Len(list) - 1 |-> IF k < i THEN list[k] ELSE list[k + 1]]
AfterFailedSend(list, i) == list

\* notify: send_notification of the channel at hand raises
SendRaises(t, exc) ==
    /\ th_pc[t] = "notify_loop"
    /\ th_idx[t] <= Len(notifiers)
    /\ send_log' = Append(send_log, Sent(notifiers[th_idx[t]], "raised"))
    /\ notifiers' = AfterFailedSend(notifiers, th_idx[t])
    /\ IF NotifyCatches(exc)
       THEN /\ th_idx' = [th_idx EXCEPT ![t] = @ + 1]
            /\ UNCHANGED << th_pc, notify_raised >>
       ELSE /\ notify_raised' = Some(exc)
            /\ Goto(t, "idle")
            /\ UNCHANGED th_idx
    /\ UNCHANGED << registry, channel_state, nm_instance, nm_lock,
                    nm_initialized, threads, th_ret, success_count,
                    objects_created, init_runs, summary, notifies >>
    /\ UNCHANGED << taskVars, autoVars, appVars, utilVars >>

\* notify: the loop is over; `total = len(self.notifiers)` and the summary
NotifyEnd(t) ==
    /\ th_pc[t] = "notify_loop"
    /\ th_idx[t] > Len(notifiers)
    /\ summary' = Some(<< success_count, Len(notifiers) >>)
    /\ Goto(t, "idle")
    /\ UNCHANGED << registry, channel_state, nm_instance, nm_lock,
                    nm_initialized, notifiers, threads, th_idx, th_ret,
                    success_count, objects_created, init_runs, send_log,
                    notify_raised, notifies >>
    /\ UNCHANGED << taskVars, autoVars, appVars, utilVars >>

\* one caller: constructor calls and notify() calls, one after the other
ManagerNext ==
    \/ \E t \in threads : ConstructBegin(t)
    \/ \E t \in threads : NewCheck(t)
    \/ \E t \in threads : NewAcquire(t)
    \/ \E t \in threads : NewLocked(t)
    \/ \E t \in threads : InitCheck(t)
    \/ \E t \in threads : InitAssign(t)
    \/ \E t \in threads : InitLoop(t)
    \/ \E t \in threads : InitDone(t)
    \/ \E t \in threads : NotifyBegin(t)
    \/ \E t \in threads, returned \in BOOLEAN : SendReturns(t, returned)
    \/ \E t \in threads, exc \in SendErrors : SendRaises(t, exc)
    \/ \E t \in threads : NotifyEnd(t)

\* several threads in constructor calls
ConstructNext ==
    \/ \E t \in threads : ConstructBegin(t)
    \/ \E t \in threads : NewCheck(t)
    \/ \E t \in threads : NewAcquire(t)
    \/ \E t \in threads : NewLocked(t)
    \/ \E t \in threads : InitCheck(t)
    \/ \E t \in threads : InitAssign(t)
    \/ \E t \in threads : InitLoop(t)
    \/ \E t \in threads : InitDone(t)

(***************************************************************************)
(* AutomationApp and the command line (python -m automation <task>).       *)
(* The steps of the automation and of the manager are the actions above,   *)
(* taken while the application is in the call that runs them.              *)
(***************************************************************************)
\* BaseAutomation._registry: task names in insertion order
TaskRegistry == << "example", "download_orders" >>
TaskNames == {"example", "download_orders", "login_task"}

Registered == { TaskRegistry[i] : i \in DOMAIN TaskRegistry }

\* ", ".join(names)
RECURSIVE Join(_)
Join(names) ==
    IF Len(names) = 0 THEN << >>
    ELSE IF Len(names) = 1 THEN << names[1] >>
    ELSE << names[1], ", " >> \o Join(Tail(names))

\* BaseAutomation.get_task_class(task_name) is not None
Resolves_Any(name) == TRUE
Resolves(name) == name \in Registered

\* the ValueError of run_automation
InvalidTaskErr(name) ==
    NewError("ValueError", None,
             << "Invalid task name: '", name, "'. Available tasks: " >>
                 \o Join(TaskRegistry),
             "app.py:42 in run_automation")

\* argparse accepts the positional argument: choices=get_available_tasks()
ParserAccepts_Any(name) == TRUE
ParserAccepts(name) == name \in Registered

\* `return result.success`
RunValue_AllDelivered(result, log) ==
    result.success /\ \A i \in DOMAIN log : log[i].outcome = "true"
RunValue(result, log) == result.success

AppInit ==
    /\ entry \in {"main", "run_automation"}
    /\ task_name \in TaskNames
    /\ app_pc = "start"
    /\ run_returned = None
    /\ run_raised = None
    /\ exit_code = None
    /\ instantiations = 0
    /\ notify_args = << >>

\* main: parser.parse_args(); a value outside choices ends the process with
\* status 2 (argparse's error exit)
ParseArgs ==
    /\ entry = "main"
    /\ app_pc = "start"
    /\ IF ParserAccepts(task_name)
       THEN /\ app_pc' = "parsed"
            /\ UNCHANGED exit_code
       ELSE /\ app_pc' = "exited"
            /\ exit_code' = Some(2)
    /\ UNCHANGED << entry, task_name, run_returned, run_raised,
                    instantiations, notify_args >>
    /\ UNCHANGED << taskVars, autoVars, nmVars, utilVars >>

\* AutomationApp(): __init__ begins and reaches NotificationManager()
AppConstruct ==
    /\ \/ entry = "main" /\ app_pc = "parsed"
       \/ entry = "run_automation" /\ app_pc = "start"
    /\ app_pc' = "constructing"
    /\ UNCHANGED << entry, task_name, run_returned, run_raised, exit_code,
                    instantiations, notify_args >>
    /\ UNCHANGED << taskVars, autoVars, nmVars, utilVars >>

\* AutomationApp.__init__: the steps of NotificationManager()
AppManagerStep ==
    /\ app_pc = "constructing"
    /\ \/ th_ret[1] = << >> /\ ConstructBegin(1)
       \/ NewCheck(1)
       \/ NewAcquire(1)
       \/ NewLocked(1)
       \/ InitCheck(1)
       \/ InitAssign(1)
       \/ InitLoop(1)
       \/ InitDone(1)

\* run_automation: the task name is looked up; an unknown name raises
RunAutomationResolve ==
    /\ app_pc = "constructing"
    /\ th_pc[1] = "idle"
    /\ th_ret[1] # << >>
    /\ IF Resolves(task_name)
       THEN /\ app_pc' = "resolved"
            /\ UNCHANGED run_raised
       ELSE /\ app_pc' = "run_raised"
            /\ run_raised' = Some(InvalidTaskErr(task_name))
    /\ UNCHANGED << entry, task_name, run_returned, exit_code,
                    instantiations, notify_args >>
    /\ UNCHANGED << taskVars, autoVars, nmVars, utilVars >>

\* run_automation: `automation = automation_class()`, then execute() is awaited
RunAutomationInstantiate ==
    /\ app_pc = "resolved"
    /\ instantiations' = instantiations + 1
    /\ app_pc' = "executing"
    /\ UNCHANGED << entry, task_name, run_returned, run_raised, exit_code,
                    notify_args >>
    /\ UNCHANGED << taskVars, autoVars, nmVars, utilVars >>

\* run_automation: the steps of `await automation.execute()`
AppAutomationStep ==
    /\ app_pc = "executing"
    /\ auto_pc \notin {"completed", "raised"}
    /\ \/ AutomationExecuteBegin
       \/ InitReturns
       \/ \E e \in InitErrors : InitRaises(e)
       \/ \E v \in DetailValues : AutomationAddsDetail(v)
       \/ AutomationReturns
       \/ \E e \in AutomationErrors : AutomationRaises(e)
       \/ CloseReturns
       \/ \E e \in CloseErrors : CloseRaises(e)

\* run_automation: execute() returned; `self.notification_manager.notify(result)`
RunAutomationNotify ==
    /\ app_pc = "executing"
    /\ auto_pc = "completed"
    /\ notify_args' = Append(notify_args, The(auto_returned))
    /\ app_pc' = "notifying"
    /\ UNCHANGED << entry, task_name, run_returned, run_raised, exit_code,
                    instantiations >>
    /\ UNCHANGED << taskVars, autoVars, nmVars, utilVars >>

\* run_automation: execute() raised; nothing in run_automation catches it
RunAutomationExecuteRaised ==
    /\ app_pc = "executing"
    /\ auto_pc = "raised"
    /\ run_raised' = auto_raised
    /\ app_pc' = "run_raised"
    /\ UNCHANGED << entry, task_name, run_returned, exit_code,
                    instantiations, notify_args >>
    /\ UNCHANGED << taskVars, autoVars, nmVars, utilVars >>

\* run_automation: the steps of notify(result)
AppNotifyStep ==
    /\ app_pc = "notifying"
    /\ \/ notifies = 0 /\ NotifyBegin(1)
       \/ \E returned \in BOOLEAN : SendReturns(1, returned)
       \/ \E exc \in SendErrors : SendRaises(1, exc)
       \/ NotifyEnd(1)

\* run_automation: notify is over; `return result.success`
RunAutomationReturns ==
    /\ app_pc = "notifying"
    /\ notifies = 1
    /\ th_pc[1] = "idle"
    /\ IF notify_raised = None
       THEN /\ run_returned' = Some(RunValue(The(auto_returned), send_log))
            /\ app_pc' = "run_returned"
            /\ UNCHANGED run_raised
       ELSE /\ run_raised' = notify_raised
            /\ app_pc' = "run_raised"
            /\ UNCHANGED run_returned
    /\ UNCHANGED << entry, task_name, exit_code, instantiations,
                    notify_args >>
    /\ UNCHANGED << taskVars, autoVars, nmVars, utilVars >>

\* main: `return 0 if success else 1`, `except Exception: return 1`, and
\* sys.exit(exit_code)
MainExit ==
    /\ entry = "main"
    /\ app_pc \in {"run_returned", "run_raised"}
    /\ exit_code' = IF run_returned # None /\ The(run_returned)
                    THEN Some(0) ELSE Some(1)
    /\ app_pc' = "exited"
    /\ UNCHANGED << entry, task_name, run_returned, run_raised,
                    instantiations, notify_args >>
    /\ UNCHANGED << taskVars, autoVars, nmVars, utilVars >>

AppNext ==
    \/ ParseArgs
    \/ AppConstruct
    \/ AppManagerStep
    \/ RunAutomationResolve
    \/ RunAutomationInstantiate
    \/ AppAutomationStep
    \/ RunAutomationNotify
    \/ RunAutomationExecuteRaised
    \/ AppNotifyStep
    \/ RunAutomationReturns
    \/ MainExit

(***************************************************************************)
(* The class registries.  BaseAutomation and BaseNotifier register every   *)
(* subclass in __init_subclass__, under a key derived from the class name. *)
(* A class name is the sequence of its characters.                         *)
(***************************************************************************)
MaxClasses == 3         \* class statements executed

UpperCase == << "A", "B", "C", "D", "E", "F", "G", "H", "I", "J", "K", "L", "M",
                "N", "O", "P", "Q", "R", "S", "T", "U", "V", "W", "X", "Y", "Z" >>
LowerCase == << "a", "b", "c", "d", "e", "f", "g", "h", "i", "j", "k", "l", "m",
                "n", "o", "p", "q", "r", "s", "t", "u", "v", "w", "x", "y", "z" >>

IsUpper(ch) == \E i \in DOMAIN UpperCase : UpperCase[i] = ch

\* str.lower() of one character
LowerChar(ch) ==
    IF IsUpper(ch)
    THEN LowerCase[CHOOSE i \in DOMAIN UpperCase : UpperCase[i] = ch]
    ELSE ch

\* str.lower()
Lower(str) == [i \in DOMAIN str |-> LowerChar(str[i])]

\* re.sub(r"(?<!^)(?=[A-Z])", "_", name): an underscore before every upper
\* case letter that is not the first character
RECURSIVE Underscored(_, _)
Underscored(name, i) ==
    IF i > Len(name) THEN << >>
    ELSE (IF i > 1 /\ IsUpper(name[i]) THEN << "_", name[i] >> ELSE << name[i] >>)
             \o Underscored(name, i + 1)

\* str.startswith(word) at position i
MatchesAt(str, word, i) ==
    /\ i + Len(word) - 1 <= Len(str)
    /\ \A k \in DOMAIN word : str[i + k - 1] = word[k]

\* str.replace(word, ""): the occurrences of word removed, left to right
RECURSIVE Removed(_, _, _)
Removed(str, word, i) ==
    IF i > Len(str) THEN << >>
    ELSE IF MatchesAt(str, word, i) THEN Removed(str, word, i + Len(word))
    ELSE << str[i] >> \o Removed(str, word, i + 1)

NotifierWord == << "N", "o", "t", "i", "f", "i", "e", "r" >>

\* the key __init_subclass__ registers a class under
TaskNameOf(name) == Lower(Underscored(name, 1))
NotifierNameOf(name) == Lower(Removed(name, NotifierWord, 1))
RegistryKey(kind, name) ==
    IF kind = "automation" THEN TaskNameOf(name) ELSE NotifierNameOf(name)

\* class names of the repository and its tests
ExampleName == << "E", "x", "a", "m", "p", "l", "e" >>
LoginTaskName == << "L", "o", "g", "i", "n", "T", "a", "s", "k" >>
ConcreteAutomationName ==
    << "C", "o", "n", "c", "r", "e", "t", "e",
       "A", "u", "t", "o", "m", "a", "t", "i", "o", "n" >>
LineNotifierName ==
    << "L", "i", "n", "e", "N", "o", "t", "i", "f", "i", "e", "r" >>
TestNotifierName ==
    << "T", "e", "s", "t", "N", "o", "t", "i", "f", "i", "e", "r" >>
ClassNames == {ExampleName, LoginTaskName, ConcreteAutomationName,
               LineNotifierName, TestNotifierName}

\* dict.get(key): None or <<class>>
RegistryGet(entries, key) ==
    IF \E i \in DOMAIN entries : entries[i].key = key
    THEN Some(entries[CHOOSE i \in DOMAIN entries : entries[i].key = key].cls)
    ELSE None

\* _registry[key] = cls: a new key is appended, an existing key keeps its
\* place and gets the new class
RegistryPut(entries, key, cls) ==
    IF \E i \in DOMAIN entries : entries[i].key = key
    THEN [i \in DOMAIN entries |->
             IF entries[i].key = key THEN [key |-> key, cls |-> cls]
             ELSE entries[i]]
    ELSE Append(entries, [key |-> key, cls |-> cls])

\* BaseAutomation.get_task_class(task_name)
get_task_class(key) == RegistryGet(reg_entries, key)

RegInit ==
    /\ reg_kind \in {"automation", "notifier"}
    /\ reg_entries = << >>
    /\ reg_classes = << >>
    /\ reg_raised = None
    /\ reg_view = None
    /\ reg_lookup = None

\* a class statement `class <name>(BaseAutomation)` or `(BaseNotifier)` is
\* executed; the class is abstract when it leaves an abstract method
\* unimplemented.  __init_subclass__ runs for every subclass.
DefineSubclass(name, abstract) ==
    /\ Len(reg_classes) < MaxClasses
    /\ reg_raised = None
    /\ reg_classes' = Append(reg_classes, [name |-> name, abstract |-> abstract])
    /\ reg_entries' = RegistryPut(reg_entries, RegistryKey(reg_kind, name),
                                  Len(reg_classes) + 1)
    /\ reg_view' = IF reg_view # None /\ The(reg_view).shared
                   THEN Some([The(reg_view) EXCEPT !.entries = reg_entries'])
                   ELSE reg_view
    /\ UNCHANGED << reg_kind, reg_raised, reg_lookup >>
    /\ UNCHANGED << coreVars, chanVars, resVars, helperVars >>

\* a variant of get_registry that hands out the registry itself
get_registry_SameDict(entries) == [shared |-> TRUE, entries |-> entries]

\* get_registry: `return cls._registry.copy()`, a new dict with the same items
get_registry(entries) == [shared |-> FALSE, entries |-> entries]

\* the keys and the class a caller of get_registry() writes into its dict
AutomationNames == {ExampleName, ConcreteAutomationName}
CallerKeys == {TaskNameOf(name) : name \in AutomationNames}
ForeignClass == 0

\* registry = BaseAutomation.get_registry()
GetRegistry ==
    /\ reg_view = None
    /\ reg_view' = Some(get_registry(reg_entries))
    /\ UNCHANGED << reg_kind, reg_entries, reg_classes, reg_raised, reg_lookup >>
    /\ UNCHANGED << coreVars, chanVars, resVars, helperVars >>

\* the dict d a caller holds after `d = get_registry()`, written through
\* `d[key] = cls` or `d.clear()`: a write reaches _registry when d is _registry
WriteReturned(entries) ==
    /\ reg_view # None
    /\ reg_view' = Some([The(reg_view) EXCEPT !.entries = entries])
    /\ reg_entries' = IF The(reg_view).shared THEN entries ELSE reg_entries
    /\ UNCHANGED << reg_kind, reg_classes, reg_raised, reg_lookup >>
    /\ UNCHANGED << coreVars, chanVars, resVars, helperVars >>

MutateReturned(key) ==
    /\ reg_view # None
    /\ WriteReturned(RegistryPut(The(reg_view).entries, key, ForeignClass))

ClearReturned ==
    /\ reg_view # None
    /\ The(reg_view).entries # << >>
    /\ WriteReturned(<< >>)

\* BaseAutomation.get_task_class(key), called directly or by run_automation
\* (`automation_class = BaseAutomation.get_task_class(task_name)`); the
\* instantiation and execute() that follow do not touch _registry
GetTaskClass(key) ==
    /\ reg_lookup' = Some([key |-> key, found |-> get_task_class(key)])
    /\ UNCHANGED << reg_kind, reg_entries, reg_classes, reg_raised, reg_view >>
    /\ UNCHANGED << coreVars, chanVars, resVars, helperVars >>

RegistryNext ==
    \E name \in ClassNames, abstract \in BOOLEAN : DefineSubclass(name, abstract)

\* the automation registry: class statements, and the callers that read it
DefineAutomation ==
    \E name \in AutomationNames, abstract \in BOOLEAN : DefineSubclass(name, abstract)

LookupNext ==
    \/ DefineAutomation
    \/ GetRegistry
    \/ \E key \in CallerKeys : MutateReturned(key)
    \/ ClearReturned
    \/ \E key \in CallerKeys : GetTaskClass(key)

(***************************************************************************)
(* The channels: one LineNotifier and one EmailNotifier with the settings  *)
(* they read from config, and one send_notification call.  A text is a     *)
(* sequence of runs [ch, n]: the character ch repeated n times.            *)
(***************************************************************************)
LineLimit == 5000       \* `if len(message) > 5000`
LineCut == 4997         \* `message[:4997]`

Run(ch, n) == [ch |-> ch, n |-> n]

\* len(text)
RECURSIVE TextLen(_)
TextLen(text) ==
    IF text = << >> THEN 0 ELSE Head(text).n + TextLen(Tail(text))

\* text[:k]
RECURSIVE Take(_, _)
Take(text, k) ==
    IF text = << >> \/ k <= 0 THEN << >>
    ELSE IF Head(text).n <= k
         THEN << Head(text) >> \o Take(Tail(text), k - Head(text).n)
         ELSE << Run(Head(text).ch, k) >>

\* a rendered message of the given length
TextOfLength(len) ==
    IF len <= 4000 THEN << Run("a", len) >>
    ELSE << Run("a", 4000), Run("b", len - 4000) >>

\* the lengths a formatted message can have (detail values have any length)
MessageLengths == {40, 4997, 4998, 5000, 5001, 6000}

\* LineNotifier.send_notification: the LINE length limit
Truncate_CutAtLimit(message) ==
    IF TextLen(message) > LineLimit
    THEN Take(message, LineLimit) \o << Run(".", 3) >>
    ELSE message
Truncate(message) ==
    IF TextLen(message) > LineLimit
    THEN Take(message, LineCut) \o << Run(".", 3) >>
    ELSE message

\* the results a channel is handed: of a successful run, of a failed run,
\* and one that execute() has not finished (end_time not set)
FinishedResult ==
    [add_detail(NewExecutionResult("Example", 0), "rows", 1)
        EXCEPT !.end_time = Some(3)]
FailedResult == [set_error(NewExecutionResult("Example", 0), LoginErr)
                    EXCEPT !.end_time = Some(3)]
UnfinishedResult == add_detail(NewExecutionResult("Example", 0), "rows", 1)
ChannelResults == {FinishedResult, FailedResult, UnfinishedResult}

\* ExecutionResult.get_execution_time(): end_time - start_time; with
\* end_time None the subtraction raises TypeError
TimeErr ==
    NewError("TypeError", None, "unsupported operand type(s) for -",
             "execution_result.py:100 in get_execution_time")
get_execution_time(result) ==
    IF result.end_time = None
    THEN [raised |-> Some(TimeErr), value |-> None]
    ELSE [raised |-> None,
          value |-> Some(The(result.end_time) - result.start_time)]

\* format_success_message / format_error_message, as send_notification
\* chooses between them: what the call raises, and the result object after
\* the call (the formatters only read it)
FormatMessage_ClearsDetails(result) ==
    [raised |-> get_execution_time(result).raised,
     result |-> [result EXCEPT !.details = EmptyDict]]
FormatMessage(result) ==
    [raised |-> get_execution_time(result).raised,
     result |-> result]

\* LineNotifier.is_enabled()
LineEnabled_ListedOnly == "line" \in enabled_notifiers
LineEnabled ==
    /\ "line" \in enabled_notifiers
    /\ line_bot_api # None
    /\ Len(target_ids) > 0

\* EmailNotifier.is_enabled(), as a truth value
EmailEnabled ==
    /\ "email" \in enabled_notifiers
    /\ smtp_host # ""
    /\ smtp_username # ""
    /\ smtp_password # ""
    /\ recipients # << >>

TargetLists == { << >>, << "U1" >>, << "U1", "G2" >>, << "U1", "G2", "U3" >> }
PushOutcomes == {"ok", "api_error", "error"}
SmtpOutcomes == {"sent", "smtp_error", "error"}

\* LineNotifier.__init__ and EmailNotifier.__init__ under some configuration
ChanInit ==
    /\ enabled_notifiers \in SUBSET {"line", "email"}
    /\ channel_access_token \in {"", "token"}
    /\ line_bot_api \in {None, Some("api")}
    /\ (channel_access_token = "") => (line_bot_api = None)
    /\ target_ids \in TargetLists
    /\ smtp_host \in {"", "smtp.gmail.com"}
    /\ smtp_username \in {"", "user"}
    /\ smtp_password \in {"", "secret"}
    /\ recipients \in {<< >>, << "ops@example.com" >>}
    /\ chan_pc = "idle"
    /\ chan_result = FinishedResult
    /\ chan_handed = FinishedResult
    /\ chan_message = None
    /\ chan_idx = 0
    /\ chan_success = 0
    /\ chan_failed = 0
    /\ transport_log = << >>
    /\ chan_returned = None
    /\ chan_raised = None

Pushed(target, formatted, text, outcome) ==
    [channel |-> "line", target |-> target, formatted |-> formatted,
     text |-> text, outcome |-> outcome]

Mailed(targets, outcome) ==
    [channel |-> "email", target |-> targets, formatted |-> << >>,
     text |-> << >>, outcome |-> outcome]

\* LineNotifier.send_notification(result) is called; len is the length of
\* the message the formatter renders.  Not enabled: return False.  The
\* formatter raises: the outer `except Exception` returns False.
LineSendBegin(result, len) ==
    /\ chan_pc = "idle"
    /\ chan_handed' = result
    /\ IF ~ LineEnabled
       THEN /\ chan_result' = result
            /\ chan_returned' = Some(FALSE)
            /\ chan_pc' = "line_done"
            /\ UNCHANGED << chan_message, chan_idx, chan_success, chan_failed >>
       ELSE /\ chan_result' = FormatMessage(result).result
            /\ IF FormatMessage(result).raised # None
               THEN /\ chan_returned' = Some(FALSE)
                    /\ chan_pc' = "line_done"
                    /\ UNCHANGED << chan_message, chan_idx, chan_success,
                                    chan_failed >>
               ELSE /\ chan_message' = Some([formatted |-> TextOfLength(len),
                                             text |-> Truncate(TextOfLength(len))])
                    /\ chan_idx' = 1
                    /\ chan_success' = 0
                    /\ chan_failed' = 0
                    /\ chan_pc' = "line_pushing"
                    /\ UNCHANGED chan_returned
    /\ UNCHANGED << enabled_notifiers, channel_access_token, line_bot_api,
                    target_ids, smtp_host, smtp_username, smtp_password,
                    recipients, transport_log, chan_raised >>
    /\ UNCHANGED << coreVars, regVars, resVars, helperVars >>

\* the loop over target_ids: push_message to the target at hand succeeds,
\* raises LineBotApiError or raises another exception
LinePush(outcome) ==
    /\ chan_pc = "line_pushing"
    /\ chan_idx <= Len(target_ids)
    /\ transport_log' =
           Append(transport_log,
                  Pushed(target_ids[chan_idx], The(chan_message).formatted,
                         The(chan_message).text, outcome))
    /\ chan_success' = IF outcome = "ok" THEN chan_success + 1 ELSE chan_success
    /\ chan_failed' = IF outcome = "ok" THEN chan_failed ELSE chan_failed + 1
    /\ chan_idx' = chan_idx + 1
    /\ UNCHANGED << enabled_notifiers, channel_access_token, line_bot_api,
                    target_ids, smtp_host, smtp_username, smtp_password,
                    recipients, chan_pc, chan_result, chan_handed,
                    chan_message, chan_returned, chan_raised >>
    /\ UNCHANGED << coreVars, regVars, resVars, helperVars >>

\* `return success_count > 0`
LineVerdict_AllDelivered(succeeded, failed) == failed = 0
LineVerdict(succeeded, failed) == succeeded > 0

\* the loop over target_ids is over
LineSendEnd ==
    /\ chan_pc = "line_pushing"
    /\ chan_idx > Len(target_ids)
    /\ chan_returned' = Some(LineVerdict(chan_success, chan_failed))
    /\ chan_pc' = "line_done"
    /\ UNCHANGED << enabled_notifiers, channel_access_token, line_bot_api,
                    target_ids, smtp_host, smtp_username, smtp_password,
                    recipients, chan_result, chan_handed, chan_message,
                    chan_idx, chan_success, chan_failed, transport_log,
                    chan_raised >>
    /\ UNCHANGED << coreVars, regVars, resVars, helperVars >>

\* EmailNotifier.send_notification(result): not enabled, return False; else
\* the message is built and handed to SMTP, which sends it or raises
EmailSend(result, outcome) ==
    /\ chan_pc = "idle"
    /\ chan_handed' = result
    /\ IF ~ EmailEnabled
       THEN /\ chan_result' = result
            /\ chan_returned' = Some(FALSE)
            /\ UNCHANGED transport_log
       ELSE /\ chan_result' = FormatMessage(result).result
            /\ IF FormatMessage(result).raised # None
               THEN /\ chan_returned' = Some(FALSE)
                    /\ UNCHANGED transport_log
               ELSE /\ chan_returned' = Some(outcome = "sent")
                    /\ transport_log' =
                           Append(transport_log, Mailed(recipients, outcome))
    /\ chan_pc' = "email_done"
    /\ UNCHANGED << enabled_notifiers, channel_access_token, line_bot_api,
                    target_ids, smtp_host, smtp_username, smtp_password,
                    recipients, chan_message, chan_idx, chan_success,
                    chan_failed, chan_raised >>
    /\ UNCHANGED << coreVars, regVars, resVars, helperVars >>

ChannelNext ==
    \/ \E result \in ChannelResults, len \in MessageLengths :
          LineSendBegin(result, len)
    \/ \E outcome \in PushOutcomes : LinePush(outcome)
    \/ LineSendEnd
    \/ \E result \in ChannelResults, outcome \in SmtpOutcomes :
          EmailSend(result, outcome)

(***************************************************************************)
(* One ExecutionResult and the operations applied to it                    *)
(***************************************************************************)
\* a domain error whose code is the empty string, an error without message
EmptyCodeErr ==
    NewError("StagehandAutomationError", Some(""), "Element not found",
             "stagehand_helper.py:40 in click_the_button")
EmptyMessageErr == NewError("ValueError", None, "", "main.py:25 in automation")

\* LoginError("JWT expired", error_code=..., context={"user": "admin"})
LoginErrWithContext == [LoginErr EXCEPT !.context = DictSet(EmptyDict, "user", "admin")]

\* FileNotFoundError(2, "No such file", "/tmp/missing.txt")
FileErr ==
    [NewError("FileNotFoundError", None, "No such file", "main.py:30 in automation")
        EXCEPT !.errno = Some(2), !.filename = Some("/tmp/missing.txt")]

\* OSError(5, "Input/output error"): an errno and no filename
IOErr ==
    [NewError("OSError", None, "Input/output error", "main.py:31 in automation")
        EXCEPT !.errno = Some(5)]

ResultErrors == {LoginErr, PlainDomainErr, EmptyCodeErr, ValueErr, TimeoutErr,
                 EmptyMessageErr, LoginErrWithContext, FileErr, IOErr}

\* a variant of SharesContext without the `.copy()`
SharesContext_DomainErrors(exc) == IsDomainError(exc)

\* from_exception: is ErrorInfo.context the dict object exc.context? It is
\* `exc.context.copy()` or a new `{}`, never exc.context itself
SharesContext(exc) == FALSE

\* the values a caller assigns to error_message directly
AssignedMessages == {None, Some(<< "simple error" >>), Some(<< "" >>)}

\* bool(s) of a str is False
IsEmptyStr(str) == \A i \in DOMAIN str : str[i] = ""

\* " ".join(parts)
RECURSIVE JoinWithSpace(_)
JoinWithSpace(parts) ==
    IF Len(parts) = 0 THEN << >>
    ELSE IF Len(parts) = 1 THEN parts[1]
    ELSE parts[1] \o << " " >> \o JoinWithSpace(Tail(parts))

\* ExecutionResult.get_error_summary
get_error_summary_NoType(result) ==
    IF result.error_info = None
    THEN IF result.error_message = None \/ IsEmptyStr(The(result.error_message))
         THEN << "Unknown error" >>
         ELSE The(result.error_message)
    ELSE LET info == The(result.error_info)
             code == IF info.error_code # None /\ The(info.error_code) # ""
                     THEN << << "[", The(info.error_code), "]" >> >>
                     ELSE << >>
         IN  JoinWithSpace(code \o << info.message >>)
get_error_summary(result) ==
    IF result.error_info = None
    THEN IF result.error_message = None \/ IsEmptyStr(The(result.error_message))
         THEN << "Unknown error" >>
         ELSE The(result.error_message)
    ELSE LET info == The(result.error_info)
             code == IF info.error_code # None /\ The(info.error_code) # ""
                     THEN << << "[", The(info.error_code), "]" >> >>
                     ELSE << >>
             type == IF info.error_type # ""
                     THEN << << "(", info.error_type, ")" >> >>
                     ELSE << >>
         IN  JoinWithSpace(code \o type \o << info.message >>)

ResInit ==
    /\ res_result = NewExecutionResult("test", 0)
    /\ res_error = None
    /\ res_summary = None

\* result.set_error(exc)
ResultSetError(exc) ==
    /\ res_result' = set_error(res_result, exc)
    /\ res_error' = Some(exc)
    /\ res_summary' = None
    /\ UNCHANGED << coreVars, regVars, chanVars, helperVars >>

\* result.error_message = message, assigned by the caller
ResultAssignMessage(message) ==
    /\ res_result' = [res_result EXCEPT !.error_message = message]
    /\ res_summary' = None
    /\ UNCHANGED res_error
    /\ UNCHANGED << coreVars, regVars, chanVars, helperVars >>

\* result.add_detail("rows", value)
ResultAddDetail(value) ==
    /\ res_result' = add_detail(res_result, "rows", value)
    /\ res_summary' = None
    /\ UNCHANGED res_error
    /\ UNCHANGED << coreVars, regVars, chanVars, helperVars >>

\* result.error_info.context[key] = "x", written by a holder of the result
ResultAddContext(key) ==
    /\ res_result.error_info # None
    /\ res_result' =
          [res_result EXCEPT !.error_info =
              Some([The(@) EXCEPT !.context = DictSet(@, key, "x")])]
    /\ res_error' =
          IF SharesContext(The(res_error))
          THEN Some([The(res_error) EXCEPT !.context = DictSet(@, key, "x")])
          ELSE res_error
    /\ res_summary' = None
    /\ UNCHANGED << coreVars, regVars, chanVars, helperVars >>

\* result.get_error_summary()
ResultSummarise ==
    /\ res_summary' = Some(get_error_summary(res_result))
    /\ UNCHANGED << res_result, res_error >>
    /\ UNCHANGED << coreVars, regVars, chanVars, helperVars >>

ResultNext ==
    \/ \E exc \in ResultErrors : ResultSetError(exc)
    \/ \E message \in AssignedMessages : ResultAssignMessage(message)
    \/ \E value \in DetailValues : ResultAddDetail(value)
    \/ ResultAddContext("note")
    \/ ResultSummarise

(***************************************************************************)
(* StagehandHelper: one click_the_button or type_into_field call           *)
(***************************************************************************)
MaxHelperRetries == 3       \* StagehandHelper(page, max_retries=...)
HelperDefaultRetries == 3   \* `max_retries: int = 3`

ConnectionErr ==
    NewError("ConnectionError", None, "connection reset", "page.py:12 in observe")
\* `button[0]` on an empty observe() result
IndexErr ==
    NewError("IndexError", None, "list index out of range",
             "stagehand_helper.py:39 in click_the_button")

\* what a page operation inside an attempt raises
PageErrors == {TimeoutErr, ConnectionErr, IndexErr}

HelperOps == {"click", "type"}

\* the error raised after the loop
HelperErr(op) ==
    IF op = "click"
    THEN NewError("StagehandAutomationError", None, "Could not find button",
                  "stagehand_helper.py:49 in click_the_button")
    ELSE NewError("StagehandAutomationError", None,
                  "Could not find field or fill failed",
                  "stagehand_helper.py:101 in type_into_field")

HelperEvent(ev, n, exc) == [ev |-> ev, n |-> n, exc |-> exc]

\* a variant of HelperCatches that lets a timeout escape
HelperCatches_NotTimeouts(exc) == ~ IsInstance(exc, {"TimeoutError"})

\* `except Exception as e`
HelperCatches(exc) == IsInstance(exc, {"Exception"})

\* `await asyncio.sleep(2**attempt)`
HelperBackoff(k) == Pow2(k)

\* `if attempt < self.max_retries - 1`
HelperSleeps(k) == k < h_max_retries - 1

HelperInit ==
    /\ h_max_retries \in 0 .. MaxHelperRetries
    /\ h_op = "click"
    /\ h_pc = "idle"
    /\ h_attempt = 0
    /\ h_log = << >>
    /\ h_raised = None
    /\ login_at = [attempt |-> 0, stmt |-> 0]

\* the helper method is entered: `for attempt in range(self.max_retries)`;
\* with an empty range the raise after the loop is reached at once
HelperBegin(op) ==
    /\ h_op' = op
    /\ h_attempt' = 0
    /\ IF h_max_retries >= 1
       THEN /\ h_pc' = "attempting"
            /\ h_log' = << HelperEvent("attempt", 0, None) >>
            /\ h_raised' = None
       ELSE /\ h_pc' = "raised"
            /\ h_log' = << >>
            /\ h_raised' = Some(HelperErr(op))
    /\ UNCHANGED h_max_retries

\* helper.click_the_button(...) or helper.type_into_field(...) is called
HelperCall(op) ==
    /\ h_pc = "idle"
    /\ HelperBegin(op)
    /\ UNCHANGED login_at
    /\ UNCHANGED << coreVars, regVars, chanVars, resVars >>

\* the page operations of the attempt succeed: `return`
AttemptSucceeds ==
    /\ h_pc = "attempting"
    /\ h_log' = Append(h_log, HelperEvent("ok", h_attempt, None))
    /\ h_pc' = "returned"
    /\ UNCHANGED << h_op, h_max_retries, h_attempt, h_raised, login_at >>
    /\ UNCHANGED << coreVars, regVars, chanVars, resVars >>

\* a page operation of the attempt raises e: the except block, and the raise
\* after the loop when this was the last attempt
AttemptRaises(e) ==
    /\ h_pc = "attempting"
    /\ IF ~ HelperCatches(e)
       THEN /\ h_log' = Append(h_log, HelperEvent("failed", h_attempt, Some(e)))
            /\ h_pc' = "raised"
            /\ h_raised' = Some(e)
       ELSE IF HelperSleeps(h_attempt)
       THEN /\ h_log' = h_log \o << HelperEvent("failed", h_attempt, Some(e)),
                                    HelperEvent("sleep", HelperBackoff(h_attempt), None) >>
            /\ h_pc' = "sleeping"
            /\ UNCHANGED h_raised
       ELSE /\ h_log' = Append(h_log, HelperEvent("failed", h_attempt, Some(e)))
            /\ h_pc' = "raised"
            /\ h_raised' = Some(HelperErr(h_op))
    /\ UNCHANGED << h_op, h_max_retries, h_attempt, login_at >>
    /\ UNCHANGED << coreVars, regVars, chanVars, resVars >>

\* type_into_field: observe() returns no element; the `if` is skipped, no
\* exception is raised, and the loop goes straight to its next iteration
AttemptFindsNothing ==
    /\ h_pc = "attempting"
    /\ h_op = "type"
    /\ IF h_attempt + 1 < h_max_retries
       THEN /\ h_attempt' = h_attempt + 1
            /\ h_log' = h_log \o << HelperEvent("nothing", h_attempt, None),
                                    HelperEvent("attempt", h_attempt + 1, None) >>
            /\ UNCHANGED << h_pc, h_raised >>
       ELSE /\ h_log' = Append(h_log, HelperEvent("nothing", h_attempt, None))
            /\ h_pc' = "raised"
            /\ h_raised' = Some(HelperErr(h_op))
            /\ UNCHANGED h_attempt
    /\ UNCHANGED << h_op, h_max_retries, login_at >>
    /\ UNCHANGED << coreVars, regVars, chanVars, resVars >>

\* asyncio.sleep returns: the next iteration of the loop
HelperSleepReturns ==
    /\ h_pc = "sleeping"
    /\ h_attempt' = h_attempt + 1
    /\ h_log' = Append(h_log, HelperEvent("attempt", h_attempt + 1, None))
    /\ h_pc' = "attempting"
    /\ UNCHANGED << h_op, h_max_retries, h_raised, login_at >>
    /\ UNCHANGED << coreVars, regVars, chanVars, resVars >>

HelperNext ==
    \/ \E op \in HelperOps : HelperCall(op)
    \/ AttemptSucceeds
    \/ \E e \in PageErrors : AttemptRaises(e)
    \/ AttemptFindsNothing
    \/ HelperSleepReturns

(***************************************************************************)
(* LoginTask: BaseTask.execute() around a task() made of helper calls      *)
(***************************************************************************)
\* the helper calls of task(), in order: type_into_field("username"),
\* type_into_field("password"), click_the_button("Login")
LoginStatements == << "type", "type", "click" >>

\* `retry_on_exceptions=(TimeoutError, ConnectionError)`
NetworkErrorClasses == {"TimeoutError", "ConnectionError"}

\* LoginTask.__init__
LoginInit ==
    /\ TaskInit
    /\ retry_delay = 2
    /\ retry_on_exceptions = Some(NetworkErrorClasses)

\* the statement of task() reached in the running attempt; 0 when task() has
\* just been entered
CurrentStmt == IF login_at.attempt = attempt THEN login_at.stmt ELSE 0

\* task(): the next helper method is called, on the StagehandHelper(self.page)
\* this call of task() constructed
LoginCallsHelper ==
    /\ task_pc = "task"
    /\ CurrentStmt < Len(LoginStatements)
    /\ CurrentStmt = 0 \/ h_pc = "returned"
    /\ HelperBegin(LoginStatements[CurrentStmt + 1])
    /\ login_at' = [attempt |-> attempt, stmt |-> CurrentStmt + 1]
    /\ UNCHANGED << coreVars, regVars, chanVars, resVars >>

\* task(): the helper method raised; nothing in task() catches it
LoginHelperRaised ==
    /\ task_pc = "task"
    /\ CurrentStmt >= 1
    /\ h_pc = "raised"
    /\ TaskRaisesWith(The(h_raised), execution_stats)

\* task(): `result = await self.page.observe(...)` returns a result
LoginVerified ==
    /\ task_pc = "task"
    /\ CurrentStmt = Len(LoginStatements)
    /\ h_pc = "returned"
    /\ execution_stats' = DictSet(execution_stats, "login_verified", TRUE)
    /\ task_pc' = "returned"
    /\ UNCHANGED << max_retries, retry_delay, retry_on_exceptions,
                    retry_history, last_exception, attempt, task_raised,
                    task_calls, sleep_log >>
    /\ UNCHANGED << autoVars, nmVars, appVars, utilVars >>

\* task(): observe() returns None: `raise StagehandAutomationError(...)`
LoginNotVerified ==
    /\ CurrentStmt = Len(LoginStatements)
    /\ h_pc = "returned"
    /\ TaskRaisesWith(PlainDomainErr,
                      DictSet(execution_stats, "login_verified", FALSE))

\* task(): observe() itself raises e
LoginObserveRaises(e) ==
    /\ CurrentStmt = Len(LoginStatements)
    /\ h_pc = "returned"
    /\ TaskRaisesWith(e, execution_stats)

LoginNext ==
    \/ ExecuteBegin
    \/ SleepReturns
    \/ LoginCallsHelper
    \/ AttemptSucceeds
    \/ \E e \in PageErrors : AttemptRaises(e)
    \/ AttemptFindsNothing
    \/ HelperSleepReturns
    \/ LoginHelperRaised
    \/ LoginVerified
    \/ LoginNotVerified
    \/ \E e \in {TimeoutErr, ConnectionErr} : LoginObserveRaises(e)

(***************************************************************************)
(* Specifications                                                          *)
(***************************************************************************)
\* the other components while one component is checked alone
TaskIdle ==
    /\ TaskInit
    /\ max_retries = 0 /\ retry_delay = 1 /\ retry_on_exceptions = None
ManagerIdle ==
    /\ NMInit({})
    /\ registry = << "email", "line", "test" >>
    /\ channel_state = [c \in ChannelClasses |-> "disabled"]
AppIdle ==
    /\ AppInit
    /\ entry = "run_automation" /\ task_name = "example"
RegistryIdle ==
    /\ RegInit
    /\ reg_kind = "automation"
ChannelIdle ==
    /\ ChanInit
    /\ enabled_notifiers = {}
    /\ channel_access_token = "" /\ line_bot_api = None /\ target_ids = << >>
    /\ smtp_host = "" /\ smtp_username = "" /\ smtp_password = ""
    /\ recipients = << >>
HelperIdle ==
    /\ HelperInit
    /\ h_max_retries = HelperDefaultRetries
UtilIdle == RegistryIdle /\ ChannelIdle /\ ResInit /\ HelperIdle

\* one BaseTask instance and its execute()
TaskSpecInit == TaskInit /\ AutoInit /\ ManagerIdle /\ AppIdle /\ UtilIdle
TaskSpec == TaskSpecInit /\ [][TaskNext]_vars

\* one BaseTask instance and several execute() calls on it
ReexecuteSpec == TaskSpecInit /\ [][ReexecuteNext]_vars

\* one BaseAutomation instance and its execute() calls
AutoSpecInit ==
    /\ TaskInit
    /\ max_retries = 0 /\ retry_delay = 1 /\ retry_on_exceptions = None
    /\ AutoInit
    /\ ManagerIdle
    /\ AppIdle
    /\ UtilIdle
AutoSpec == AutoSpecInit /\ [][AutoNext]_vars

\* one caller of the NotificationManager: constructor calls and notify() calls
ManagerSpecInit == TaskIdle /\ AutoInit /\ NMInit({1}) /\ AppIdle /\ UtilIdle
ManagerSpec == ManagerSpecInit /\ [][ManagerNext]_vars

\* two threads that call the NotificationManager constructor
ConcurrentSpecInit == TaskIdle /\ AutoInit /\ NMInit({1, 2}) /\ AppIdle /\ UtilIdle
ConcurrentSpec == ConcurrentSpecInit /\ [][ConstructNext]_vars

\* the components of the program while a library piece is checked alone
CoreIdle == TaskIdle /\ AutoInit /\ ManagerIdle /\ AppIdle

\* class statements that fill one registry
RegistrySpecInit == CoreIdle /\ RegInit /\ ChannelIdle /\ ResInit /\ HelperIdle
RegistrySpec == RegistrySpecInit /\ [][RegistryNext]_vars

\* the automation registry, filled by class statements and read by callers
LookupSpecInit == CoreIdle /\ RegistryIdle /\ ChannelIdle /\ ResInit /\ HelperIdle
LookupSpec == LookupSpecInit /\ [][LookupNext]_vars

\* one send_notification call on a LINE or an email channel
ChannelSpecInit == CoreIdle /\ RegistryIdle /\ ChanInit /\ ResInit /\ HelperIdle
ChannelSpec == ChannelSpecInit /\ [][ChannelNext]_vars

\* one LoginTask instance and its execute()
LoginSpecInit ==
    /\ LoginInit /\ AutoInit /\ ManagerIdle /\ AppIdle
    /\ RegistryIdle /\ ChannelIdle /\ ResInit /\ HelperIdle
LoginSpec == LoginSpecInit /\ [][LoginNext]_vars

\* one StagehandHelper method call
HelperSpecInit == CoreIdle /\ RegistryIdle /\ ChannelIdle /\ ResInit /\ HelperInit
HelperSpec == HelperSpecInit /\ [][HelperNext]_vars

\* one ExecutionResult and the calls made on it
ResultSpecInit == CoreIdle /\ RegistryIdle /\ ChannelIdle /\ ResInit /\ HelperIdle
ResultSpec == ResultSpecInit /\ [][ResultNext]_vars

\* one process: main() or a direct run_automation() call
AppSpecInit == TaskIdle /\ AutoInit /\ NMInit({1}) /\ AppInit /\ UtilIdle
AppSpec == AppSpecInit /\ [][AppNext]_vars

(***************************************************************************)
(* Properties of BaseTask.execute                                          *)
(***************************************************************************)
TaskDone == task_pc \in {"returned", "raised"}

\* should_retry applied to the error a retry_history entry records
EntryRetryable(h) == should_retry([type |-> h.error_type])

\* the raised exception is the exception object of attempt k, not a wrapper
RaisedIsErrorOf(k) ==
    /\ task_raised # None
    /\ The(task_raised).id = k
    /\ k \in 1 .. Len(retry_history)
    /\ The(task_raised).type = retry_history[k].error_type
    /\ Str(The(task_raised)) = retry_history[k].error_message

RECURSIVE SumSeconds(_)
SumSeconds(log) ==
    IF log = << >> THEN 0 ELSE log[1].seconds + SumSeconds(Tail(log))

\* retries were exhausted: execute() raised after the loop, not from the
\* except block
Exhausted ==
    /\ task_pc = "raised"
    /\ should_retry(The(task_raised))

\* the exception carries the retry history in its context: one entry per
\* failed attempt, numbered 1..N in order
CarriesHistory(exc) ==
    /\ "retry_history" \in DOMAIN exc.context
    /\ LET h == Deref(exc.context["retry_history"]) IN
       /\ Len(h) = Len(task_calls)
       /\ \A i \in 1 .. Len(h) :
             /\ DOMAIN h[i] = {"attempt", "error_type", "error_message"}
             /\ h[i].attempt = i
       /\ h[Len(h)].error_type = exc.type
       /\ h[Len(h)].error_message = Str(exc)

\* C1: for max_retries = N >= 1, when every attempt fails with a retryable
\* error, task() is invoked exactly N times (attempts 1..N), execute() sleeps
\* exactly N-1 times and then raises the error of attempt N itself.
C1_AlwaysFailingRetryable ==
    /\ (max_retries >= 1) => Len(task_calls) <= max_retries
    /\ ( /\ max_retries >= 1
         /\ task_pc = "raised"
         /\ \A i \in 1 .. Len(retry_history) : EntryRetryable(retry_history[i]) )
       => /\ task_calls = [i \in 1 .. max_retries |-> i]
          /\ Len(sleep_log) = max_retries - 1
          /\ \A i \in 1 .. Len(sleep_log) : sleep_log[i].after = i
          /\ RaisedIsErrorOf(max_retries)

C1_Witness ==
    /\ max_retries = 3
    /\ task_pc = "raised"
    /\ Len(task_calls) = 3
    /\ Len(sleep_log) = 2
    /\ \A i \in 1 .. Len(retry_history) : EntryRetryable(retry_history[i])

C3_Claimed ==
    Exhausted => CarriesHistory(The(task_raised))

\* C3 (amended): whenever execute() raises with retries exhausted and the
\* raised error is a StagehandAutomationError, its context holds under
\* "retry_history" one entry per failed attempt, in attempt order 1..N; for
\* any other error nothing is attached to the error and the history is kept
\* only in execution_stats["retry_history"].
C3_HistoryOnDomainErrors ==
    Exhausted =>
        /\ Len(retry_history) = max_retries
        /\ "retry_history" \in DOMAIN execution_stats
        /\ Deref(execution_stats["retry_history"]) = retry_history
        /\ IF IsDomainError(The(task_raised))
           THEN CarriesHistory(The(task_raised))
           ELSE The(task_raised).context = EmptyDict

C3_Witness ==
    /\ Exhausted
    /\ max_retries = 3
    /\ The(task_raised).type = "LoginError"
    /\ CarriesHistory(The(task_raised))
    /\ retry_history[1].error_type = "TimeoutError"

\* C4 (as claimed): the sleep after failed attempt k lasts
\* retry_delay * 2^(k-1); with max_retries = 3, retry_delay = 2 and a task
\* failing twice and then succeeding the total slept is 6.
C4_Claimed ==
    /\ \A i \in 1 .. Len(sleep_log) :
          sleep_log[i].seconds = retry_delay * Pow2(sleep_log[i].after - 1)
    /\ ( /\ max_retries = 3
         /\ retry_delay = 2
         /\ task_pc = "returned"
         /\ Len(retry_history) = 2 )
       => SumSeconds(sleep_log) = 6

\* C4 (amended): the sleep after failed retryable attempt k (k < max_retries)
\* lasts retry_delay, the same for every k; with max_retries = 3,
\* retry_delay = 2 and a task failing twice and then succeeding the total
\* slept is 2 + 2 = 4.
C4_ConstantDelay ==
    /\ \A i \in 1 .. Len(sleep_log) :
          /\ sleep_log[i].after = i
          /\ sleep_log[i].after < max_retries
          /\ sleep_log[i].seconds = retry_delay
    /\ ( /\ max_retries = 3
         /\ retry_delay = 2
         /\ task_pc = "returned"
         /\ Len(retry_history) = 2 )
       => SumSeconds(sleep_log) = 4

C4_Witness ==
    /\ max_retries = 3
    /\ retry_delay = 2
    /\ task_pc = "returned"
    /\ Len(retry_history) = 2
    /\ Len(sleep_log) = 2

\* C5 (as claimed): with max_retries = 0 or 1, execute() makes exactly one
\* attempt of task(), never sleeps, and a failure of that attempt is raised.
C5_Claimed ==
    (max_retries \in {0, 1} /\ TaskDone)
    => /\ task_calls = << 1 >>
       /\ sleep_log = << >>
       /\ (retry_history # << >>) => (task_pc = "raised" /\ RaisedIsErrorOf(1))

\* C6: when an attempt of task() succeeds, execute() returns at once: nothing
\* is raised, the successful attempt is the last one, no sleep follows it,
\* and the history of the failed attempts is attached neither to an error
\* context nor to execution_stats; after returning nothing more happens.
C6_SuccessReturnsAtOnce ==
    /\ []( (task_pc = "returned" /\ task_calls # << >>)
           => /\ task_raised = None
              /\ Len(task_calls) = Len(retry_history) + 1
              /\ Len(sleep_log) = Len(retry_history)
              /\ "retry_history" \notin DOMAIN execution_stats
              /\ last_exception # None
                 => The(last_exception).context = EmptyDict )
    /\ [][ (task_pc = "returned") => UNCHANGED taskVars ]_vars

C6_Witness ==
    /\ max_retries = 3
    /\ retry_delay = 2
    /\ task_pc = "returned"
    /\ Len(retry_history) = 2
    /\ task_calls = << 1, 2, 3 >>
    /\ task_raised = None

(***************************************************************************)
(* Properties of BaseAutomation.execute                                    *)
(***************************************************************************)
\* the events of execute() call number r, in order
RunEvents(r) == SelectSeq(session_log, LAMBDA x : x.run = r)

Count(r, name) == Len(SelectSeq(session_log, LAMBDA x : x.run = r /\ x.ev = name))

\* execute() call number r has returned or raised
RunConcluded(r) ==
    \/ r < executes
    \/ r = executes /\ auto_pc \in {"completed", "raised"}

\* automation() was awaited in call r and has returned or raised
AutomationConcluded(r) ==
    Count(r, "automation_returned") + Count(r, "automation_raised") > 0

\* the exceptions automation() raised in call r
AutomationRaised(r) ==
    { The(session_log[i].exc) :
        i \in { j \in 1 .. Len(session_log) :
                  session_log[j].run = r /\ session_log[j].ev = "automation_raised" } }

\* C7: in every execute() run, close() is invoked exactly once, whether
\* automation() returns normally, raises a domain error or raises any other
\* error: once automation() has concluded there is exactly one close() call
\* in the run, never a second one, and none before automation() concluded.
C7_CloseExactlyOnce ==
    \A r \in 1 .. executes :
        /\ Count(r, "close") <= 1
        /\ AutomationConcluded(r) <=> Count(r, "close") = 1
        /\ (RunConcluded(r) /\ Count(r, "automation") > 0) => Count(r, "close") = 1

C7_Witness ==
    /\ executes = 2
    /\ RunConcluded(2)
    /\ LoginErr \in AutomationRaised(1)
    /\ Count(2, "automation_returned") = 1
    /\ Count(1, "close") = 1
    /\ Count(2, "close") = 1

\* C8 (as claimed): execute() never raises to its caller when automation()
\* raised: it returns an ExecutionResult with success false, error_message
\* set and error_info built from that error; when automation() returned
\* normally it returns a result with success true and no error_message.
\* Stated for the first execute() of an instance.
C8_Claimed ==
    (executes = 1 /\ RunConcluded(1))
    => /\ \A e \in AutomationRaised(1) :
            /\ auto_raised = None
            /\ auto_returned # None
            /\ The(auto_returned).success = FALSE
            /\ The(auto_returned).error_message = Some(Str(e))
            /\ The(auto_returned).error_info = Some(from_exception(e))
       /\ Count(1, "automation_returned") = 1
          => /\ auto_raised = None
             /\ auto_returned # None
             /\ The(auto_returned).success = TRUE
             /\ The(auto_returned).error_message = None

\* C9 (as claimed): when close() itself fails, execute() still completes and
\* delivers the ExecutionResult, which carries the outcome of automation()
\* and not the release error.
C9_Claimed ==
    (RunConcluded(executes) /\ Count(executes, "close_failed") > 0)
    => /\ auto_raised = None
       /\ auto_returned = Some(execution_result)

\* C10 (as claimed): every run follows created -> session-acquiring ->
\* running -> (success | failed) -> session-releasing -> completed:
\* automation() starts only after init() has completed, close() is invoked
\* only after automation() has concluded, automation() is invoked at most
\* once per execute(), and a run ends only in the state completed.
C10_Claimed ==
    /\ \A i \in 1 .. Len(session_log) :
          /\ session_log[i].ev = "automation"
             => \E j \in 1 .. i - 1 : session_log[j].ev = "init_done"
          /\ session_log[i].ev = "close"
             => \E j \in 1 .. i - 1 :
                   /\ session_log[j].run = session_log[i].run
                   /\ session_log[j].ev \in {"automation_returned", "automation_raised"}
    /\ \A r \in 1 .. executes : Count(r, "automation") <= 1
    /\ (auto_pc = "running") => stagehand_initialized
    /\ auto_pc # "raised"

\* C11: in every state reached through construction, add_detail, set_error
\* and execute(), an ExecutionResult has success false if and only if
\* error_info is present; so has every result execute() returns.
C11_FailedIffErrorInfo ==
    /\ (execution_result.success = FALSE) <=> (execution_result.error_info # None)
    /\ (execution_result.error_info # None) => (execution_result.error_message # None)
    /\ auto_returned # None
       => ((The(auto_returned).success = FALSE)
              <=> (The(auto_returned).error_info # None))

C11_Witness ==
    /\ auto_pc = "completed"
    /\ auto_returned # None
    /\ The(auto_returned).success = FALSE
    /\ The(auto_returned).error_info # None
    /\ The(The(auto_returned).error_info).error_type = "LoginError"
    /\ DOMAIN The(auto_returned).details # {}

\* positions in session_log of the events named `name` of call r
Positions(r, name) ==
    { i \in 1 .. Len(session_log) :
        session_log[i].run = r /\ session_log[i].ev = name }

\* C12 (as claimed): execute() sets end_time exactly once, on every exit
\* path, in the final step after automation() and the session release have
\* concluded; end_time is unset before that.
C12_Claimed ==
    \A r \in 1 .. executes :
        /\ Count(r, "end_time") <= 1
        /\ RunConcluded(r) => Count(r, "end_time") = 1
        /\ \A i \in Positions(r, "end_time") :
              /\ \A j \in Positions(r, "close") : j < i
              /\ Count(r, "close") = 1
                 => \E j \in Positions(r, "close_done") \cup Positions(r, "close_failed") :
                       j < i
        /\ (r = 1 /\ Count(r, "end_time") = 0) => execution_result.end_time = None

\* C12 (amended): execute() sets end_time exactly once per run, on every exit
\* path, in its finally block after automation() (or a failed init()) has
\* concluded and before the session release is invoked; end_time is unset
\* before that on a fresh instance.
C12_EndTimeBeforeRelease ==
    \A r \in 1 .. executes :
        /\ Count(r, "end_time") <= 1
        /\ RunConcluded(r) => Count(r, "end_time") = 1
        /\ \A i \in Positions(r, "end_time") :
              /\ \E j \in Positions(r, "automation_returned")
                          \cup Positions(r, "automation_raised")
                          \cup Positions(r, "init_failed") : j < i
              /\ \A j \in Positions(r, "close") : i < j
        /\ (r = 1 /\ Count(r, "end_time") = 0) => execution_result.end_time = None
        /\ (r = executes /\ Count(r, "end_time") = 1)
           => /\ execution_result.end_time # None
              /\ The(execution_result.end_time) > execution_result.start_time

C12_Witness ==
    /\ executes = 1
    /\ auto_pc = "completed"
    /\ Count(1, "end_time") = 1
    /\ Count(1, "close_done") = 1
    /\ execution_result.end_time # None

(***************************************************************************)
(* Properties of AutomationApp and the command line                        *)
(***************************************************************************)
\* C13: run_automation with a task name that is not registered raises a
\* ValueError whose message starts with "Invalid task name", quotes the name
\* and lists every registered name; no automation has been instantiated, no
\* execute() and no session init() call has happened, notify has not been
\* called, and run_automation never returns a value.
C13_UnknownNameRaisesEarly ==
    (task_name \notin Registered) =>
        /\ instantiations = 0
        /\ executes = 0
        /\ session_log = << >>
        /\ auto_pc = "created"
        /\ notifies = 0
        /\ notify_args = << >>
        /\ send_log = << >>
        /\ run_returned = None
        /\ app_pc \notin {"resolved", "executing", "notifying", "run_returned"}
        /\ (app_pc = "run_raised") =>
              /\ run_raised # None
              /\ The(run_raised).type = "ValueError"
              /\ The(run_raised).message[1] = "Invalid task name: '"
              /\ The(run_raised).message[2] = task_name
              /\ \A n \in Registered :
                    \E i \in DOMAIN The(run_raised).message :
                        The(run_raised).message[i] = n

C13_Witness ==
    /\ entry = "run_automation"
    /\ task_name = "login_task"
    /\ app_pc = "run_raised"
    /\ nm_initialized
    /\ The(run_raised).type = "ValueError"

\* the outcome of the task as the process sees it: execute() returned a
\* result with success true
TaskSucceeded == auto_returned # None /\ The(auto_returned).success

C15_NotificationDoesNotInterfere ==
    /\ (run_returned # None) =>
          /\ auto_returned # None
          /\ The(run_returned) = The(auto_returned).success
    /\ (app_pc = "notifying") => (run_raised = None /\ exit_code = None)
    /\ (run_raised # None /\ task_name \in Registered) =>
          /\ notifies = 0
          /\ run_raised = auto_raised
    /\ notify_raised = None
    /\ (exit_code # None /\ task_name \in Registered) =>
          exit_code = IF TaskSucceeded THEN Some(0) ELSE Some(1)

C15_Witness ==
    /\ run_returned = Some(TRUE)
    /\ exit_code = Some(0)
    /\ \E i \in DOMAIN send_log : send_log[i].outcome = "raised"
    /\ \E i \in DOMAIN send_log : send_log[i].outcome = "false"
    /\ summary = Some(<< 0, 2 >>)

(***************************************************************************)
(* Properties of NotificationManager                                       *)
(***************************************************************************)
\* the enabled channels in the order of the registry (discovery order)
EnabledInOrder ==
    SelectSeq(registry, LAMBDA c : channel_state[c] = "enabled")

NotifyConcluded ==
    /\ notifies > 0
    /\ \A t \in threads : th_pc[t] # "notify_loop"

Outcomes(log) == [i \in DOMAIN log |-> log[i].outcome]

\* C16: notify never raises to its caller; it calls send_notification on the
\* enabled channels in discovery order, each at most once while it runs and
\* each exactly once when it has concluded, whatever the channels before it
\* did (returned true, returned false or raised).
C16_NotifyAttemptsEveryChannel ==
    /\ notify_raised = None
    /\ Len(send_log) <= Len(notifiers)
    /\ \A i \in DOMAIN send_log : send_log[i].channel = notifiers[i]
    /\ nm_initialized => notifiers = EnabledInOrder
    /\ NotifyConcluded =>
          /\ Len(send_log) = Len(notifiers)
          /\ [i \in DOMAIN send_log |-> send_log[i].channel] = EnabledInOrder

C16_Witness ==
    /\ NotifyConcluded
    /\ Outcomes(send_log) = << "raised", "false", "true" >>
    /\ notify_raised = None

\* C17: the summary notify reports is succeeded/total, where succeeded is
\* the number of send_notification calls that returned true and total is the
\* number of enabled channels; a notify over two channels of which the first
\* returns true and the second raises reports 1/2, and every notify over a
\* nonempty channel list reports a summary.
C17_SummaryCountsTrue ==
    /\ (summary # None) =>
          /\ The(summary)[1] =
                Cardinality({i \in DOMAIN send_log : send_log[i].outcome = "true"})
          /\ The(summary)[2] =
                Cardinality({c \in ChannelClasses : channel_state[c] = "enabled"})
          /\ Len(send_log) = The(summary)[2]
    /\ (NotifyConcluded /\ notifiers # << >>) => summary # None
    /\ (NotifyConcluded /\ Outcomes(send_log) = << "true", "raised" >>) =>
          summary = Some(<< 1, 2 >>)

C17_Witness ==
    /\ NotifyConcluded
    /\ Outcomes(send_log) = << "true", "raised" >>
    /\ summary = Some(<< 1, 2 >>)

\* C18: with one caller, every constructor call returns the same object, the
\* object is created once and channel discovery runs once: after the first
\* construction the channel list stays the list of the enabled channels in
\* discovery order, and later constructions do not rebuild it.
C18_ConstructionIdempotent ==
    /\ objects_created <= 1
    /\ init_runs <= 1
    /\ \A t \in threads : \A i \in DOMAIN th_ret[t] :
          th_ret[t][i] = 1 /\ nm_instance = Some(1)
    /\ nm_initialized => (init_runs = 1 /\ notifiers = EnabledInOrder)
    /\ \A t \in threads :
          (th_ret[t] # << >>) =>
              (nm_initialized /\ th_pc[t] \notin {"init_assign", "init_loop"})

C18_Witness ==
    /\ Len(th_ret[1]) = 2
    /\ th_pc[1] = "idle"
    /\ init_runs = 1
    /\ Len(notifiers) = 2

\* C19 as claimed: when two threads call the constructor concurrently, in
\* every interleaving both get the same object and __initialize_notifiers
\* runs at most once, so that once a constructor call has returned the
\* channel list is the list of the enabled channels, each once.
C19_Claimed ==
    /\ objects_created <= 1
    /\ \A t \in threads : \A i \in DOMAIN th_ret[t] : th_ret[t][i] = 1
    /\ init_runs <= 1
    /\ (\E t \in threads : th_ret[t] # << >>) => notifiers = EnabledInOrder

\* C20: once the constructor has completed, no step changes the channel
\* list: notify calls, whatever the channels return or raise, leave its
\* members and their order as they are.
C20_NotifyKeepsChannels ==
    [][ nm_initialized => (notifiers' = notifiers /\ nm_initialized') ]_vars

C20_Witness ==
    /\ notifies = 2
    /\ NotifyConcluded
    /\ Len(notifiers) = 3
    /\ Outcomes(send_log) = << "raised", "false", "raised" >>

\* the channels a discovery loop that is at position k has kept so far
KeptBefore(k) ==
    SelectSeq(SubSeq(registry, 1, k - 1),
              LAMBDA c : channel_state[c] = "enabled")

\* C21: the constructor considers every registered channel class in registry
\* order and keeps exactly the enabled ones: while the discovery loop is at
\* position k the list holds the enabled classes among the first k - 1, a
\* class that raises is skipped and the loop goes on to the classes after
\* it, the constructor never raises, and when it has returned the list is
\* the enabled classes of the whole registry in registry order.
C21_DiscoveryKeepsEnabled ==
    /\ \A t \in threads :
          /\ th_pc[t] # "constructor_raised"
          /\ (th_pc[t] = "init_loop") => notifiers = KeptBefore(th_idx[t])
          /\ (th_ret[t] # << >>) => notifiers = KeptBefore(Len(registry) + 1)
    /\ \A i \in DOMAIN notifiers : channel_state[notifiers[i]] = "enabled"

C21_Witness ==
    /\ nm_initialized
    /\ th_ret[1] # << >>
    /\ channel_state[registry[1]] = "broken"
    /\ channel_state[registry[2]] = "enabled"
    /\ channel_state[registry[3]] = "disabled"
    /\ notifiers = << registry[2] >>

(***************************************************************************)
(* Properties of the class registries                                      *)
(***************************************************************************)
\* the classes defined so far whose name derives the given key
ClassesWithKey(key) ==
    { c \in DOMAIN reg_classes : RegistryKey(reg_kind, reg_classes[c].name) = key }

Min(S) == CHOOSE x \in S : \A y \in S : x <= y

\* C22 as claimed: a class statement whose derived key is already registered
\* fails, and the entry of the key keeps the class registered first.
C22_Claimed ==
    /\ \A i \in DOMAIN reg_entries :
          reg_entries[i].cls = Min(ClassesWithKey(reg_entries[i].key))
    /\ (\E c, d \in DOMAIN reg_classes :
            /\ c # d
            /\ RegistryKey(reg_kind, reg_classes[c].name)
                   = RegistryKey(reg_kind, reg_classes[d].name))
          => reg_raised # None

LoginTaskKey == << "l", "o", "g", "i", "n", "_", "t", "a", "s", "k" >>
ConcreteAutomationKey ==
    << "c", "o", "n", "c", "r", "e", "t", "e", "_",
       "a", "u", "t", "o", "m", "a", "t", "i", "o", "n" >>

\* the names the examples of the claim and the tests look up
LookupKeys ==
    { TaskNameOf(n) : n \in ClassNames }
        \cup { << "n", "o", "n", "_", "e", "x", "i", "s", "t", "e", "n", "t" >> }

\* the derived names are the lower-case underscore-delimited class names
DerivedNamesAsClaimed ==
    /\ TaskNameOf(LoginTaskName) = LoginTaskKey
    /\ TaskNameOf(ConcreteAutomationName) = ConcreteAutomationKey
    /\ TaskNameOf(ExampleName) = << "e", "x", "a", "m", "p", "l", "e" >>

\* every concrete class has exactly one entry, under its derived name
ConcreteRegisteredOnce ==
    \A c \in DOMAIN reg_classes :
        (~ reg_classes[c].abstract) =>
            /\ Cardinality({i \in DOMAIN reg_entries : reg_entries[i].cls = c}) = 1
            /\ \A i \in DOMAIN reg_entries :
                  (reg_entries[i].cls = c) =>
                      reg_entries[i].key = TaskNameOf(reg_classes[c].name)

\* no entry holds an abstract class
NoAbstractRegistered ==
    \A i \in DOMAIN reg_entries : ~ reg_classes[reg_entries[i].cls].abstract

\* get_task_class finds the entry of a registered key and nothing else
LookupAsClaimed ==
    \A key \in LookupKeys :
        IF \E i \in DOMAIN reg_entries : reg_entries[i].key = key
        THEN \E i \in DOMAIN reg_entries :
                /\ reg_entries[i].key = key
                /\ get_task_class(key) = Some(reg_entries[i].cls)
        ELSE get_task_class(key) = None

\* C23 as claimed: in the automation registry every concrete class is
\* registered exactly once under its lower-case underscore-delimited name
\* (LoginTask -> login_task, ConcreteAutomation -> concrete_automation), no
\* abstract class is registered, and get_task_class returns the registered
\* class for a registered name and None for every other name.
C23_Claimed ==
    (reg_kind = "automation") =>
        /\ DerivedNamesAsClaimed
        /\ ConcreteRegisteredOnce
        /\ NoAbstractRegistered
        /\ LookupAsClaimed

(***************************************************************************)
(* Properties of the channels                                              *)
(***************************************************************************)
LinePushes == SelectSeq(transport_log, LAMBDA p : p.channel = "line")

\* C24: every text LineNotifier pushes has at most 5000 characters: a
\* formatted message of at most 5000 characters is pushed as it is, a longer
\* one is pushed as its first 4997 characters followed by "...".
C24_LineTextWithinLimit ==
    \A i \in DOMAIN LinePushes :
        LET formatted == LinePushes[i].formatted
            text == LinePushes[i].text
        IN  /\ TextLen(text) <= 5000
            /\ (TextLen(formatted) <= 5000) => text = formatted
            /\ (TextLen(formatted) > 5000) =>
                  /\ TextLen(text) = 5000
                  /\ Take(text, 4997) = Take(formatted, 4997)
                  /\ text[Len(text)] = Run(".", 3)

C24_Witness ==
    /\ chan_pc = "line_done"
    /\ Len(LinePushes) = 2
    /\ TextLen(LinePushes[1].formatted) = 6000
    /\ TextLen(LinePushes[1].text) = 5000

\* the settings that make the LINE channel enabled
LineConfigured ==
    /\ "line" \in enabled_notifiers
    /\ channel_access_token # ""
    /\ line_bot_api # None
    /\ target_ids # << >>

\* the settings that make the email channel enabled
EmailConfigured ==
    /\ "email" \in enabled_notifiers
    /\ smtp_host # ""
    /\ smtp_username # ""
    /\ smtp_password # ""
    /\ recipients # << >>

C26_EnabledOnlyIfConfigured ==
    /\ LineEnabled => LineConfigured
    /\ EmailEnabled => EmailConfigured
    /\ (chan_pc = "line_done" /\ ~ LineConfigured) =>
          (transport_log = << >> /\ chan_returned = Some(FALSE))
    /\ (chan_pc = "email_done" /\ ~ EmailConfigured) =>
          (transport_log = << >> /\ chan_returned = Some(FALSE))
    /\ (chan_pc = "line_pushing") => LineConfigured

C26_Witness ==
    /\ chan_pc = "line_done"
    /\ "line" \in enabled_notifiers
    /\ channel_access_token = ""
    /\ Len(target_ids) = 2
    /\ transport_log = << >>
    /\ chan_returned = Some(FALSE)

\* C28: the ExecutionResult a channel is handed is the same after
\* send_notification and its formatter as it was when it was handed over:
\* success, error_message, error_info, details, start_time and end_time are
\* unchanged.
C28_SendLeavesResultUnchanged ==
    /\ chan_result.success = chan_handed.success
    /\ chan_result.error_message = chan_handed.error_message
    /\ (chan_result.error_info = None) <=> (chan_handed.error_info = None)
    /\ chan_result.details = chan_handed.details
    /\ chan_result.start_time = chan_handed.start_time
    /\ chan_result.end_time = chan_handed.end_time
    /\ chan_result = chan_handed

C28_Witness ==
    /\ chan_pc = "line_done"
    /\ chan_handed = FailedResult
    /\ chan_result = FailedResult
    /\ Len(LinePushes) = 2
    /\ chan_returned = Some(TRUE)

(***************************************************************************)
(* Properties of ExecutionResult                                           *)
(***************************************************************************)
\* str contains the tokens of part, one after the other
Contains(str, part) == \E i \in 1 .. Len(str) : MatchesAt(str, part, i)

\* C27: after set_error(e), get_error_summary() contains the code of e in
\* brackets when e carries a (non-empty) code, the type name of e in
\* parentheses, and the message of e; with no error_info it returns
\* error_message, or "Unknown error" when error_message is absent (None or
\* the empty string).
C27_SummaryNamesTheError ==
    (res_summary # None) =>
        IF res_result.error_info # None
        THEN LET e == The(res_error)
             IN  /\ (IsDomainError(e) /\ e.error_code # None
                        /\ The(e.error_code) # "")
                       => Contains(The(res_summary),
                                   << "[", The(e.error_code), "]" >>)
                 /\ Contains(The(res_summary), << "(", e.type, ")" >>)
                 /\ Contains(The(res_summary), << e.message >>)
        ELSE IF res_result.error_message = None
                   \/ res_result.error_message = Some(<< "" >>)
             THEN The(res_summary) = << "Unknown error" >>
             ELSE The(res_summary) = The(res_result.error_message)

C27_Witness ==
    /\ res_error = Some(LoginErr)
    /\ res_result.error_info # None
    /\ res_summary =
          Some(<< "[", "E1001", "]", " ", "(", "LoginError", ")", " ",
                  "[", "E1001", "] ", "JWT expired" >>)

(***************************************************************************)
(* Properties of run_automation and its notification                       *)
(***************************************************************************)
\* run_automation has ended for a task it instantiated
RunOver ==
    /\ instantiations = 1
    /\ app_pc \in {"run_returned", "run_raised", "exited"}

CloseFailed == \E i \in 1 .. Len(session_log) : session_log[i].ev = "close_failed"

\* notify is called at most once, with the result execute() returned, and
\* with no driver session still open
NotifiedAfterRelease ==
    /\ Len(notify_args) <= 1
    /\ Len(notify_args) = 1
          => /\ auto_returned # None
             /\ notify_args[1] = The(auto_returned)
             /\ ~ stagehand_initialized

\* C29 as claimed: in a run of a registered task notify is called exactly
\* once, with the ExecutionResult of that run, only after the driver session
\* has been released, for successful and failed results alike.
C29_Claimed ==
    /\ NotifiedAfterRelease
    /\ RunOver => Len(notify_args) = 1

(***************************************************************************)
(* Properties of should_retry                                              *)
(***************************************************************************)
\* the error is an instance of a configured class, or every error is retried
Retryable(exc) ==
    \/ retry_on_exceptions = None
    \/ \E class \in The(retry_on_exceptions) : class \in Bases(exc.type)

\* C30 as claimed: with a configured set should_retry is true only if the
\* type of the error is a member of the set.
C30_Claimed ==
    (last_exception # None)
       => LET e == The(last_exception)
          IN  /\ (retry_on_exceptions = None) => should_retry(e)
              /\ (retry_on_exceptions # None /\ should_retry(e))
                    => e.type \in The(retry_on_exceptions)

\* C30: should_retry(error) is true for every error when no retryable-error
\* set is configured, and otherwise true exactly if the error is an instance
\* of a class of the configured set, instances of subclasses included;
\* execute() backs off only after such an error and re-raises any other at
\* once.
C30_RetriesInstancesOfConfigured ==
    (last_exception # None /\ task_pc \in {"sleep", "raised"})
       => LET e == The(last_exception)
          IN  /\ should_retry(e) = Retryable(e)
              /\ (task_pc = "sleep") => Retryable(e)
              /\ (~ Retryable(e)) => task_pc = "raised" /\ task_raised = last_exception

C30_Witness ==
    /\ retry_on_exceptions = Some({"StagehandAutomationError"})
    /\ last_exception # None
    /\ The(last_exception).type = "LoginError"
    /\ task_pc = "sleep"

(***************************************************************************)
(* Properties of the registry frame                                        *)
(***************************************************************************)
\* the class the class statements so far registered under key
LastDefined(key) ==
    IF ClassesWithKey(key) = {} THEN None
    ELSE Some(CHOOSE c \in ClassesWithKey(key) : \A d \in ClassesWithKey(key) : d <= c)

\* C31: the registry is changed only by a class definition; get_registry,
\* get_task_class (which run_automation calls) and writes to the mapping
\* get_registry returned leave it unchanged, so get_task_class returns what
\* the definitions registered, whatever was written to a returned mapping.
C31_RegistryChangedOnlyByDefinition ==
    [][ /\ (reg_entries' # reg_entries) => Len(reg_classes') = Len(reg_classes) + 1
        /\ (reg_lookup' # reg_lookup)
              => The(reg_lookup').found = LastDefined(The(reg_lookup').key) ]_vars

C31_Witness ==
    /\ reg_kind = "automation"
    /\ reg_view # None
    /\ RegistryGet(The(reg_view).entries, TaskNameOf(ExampleName)) = Some(ForeignClass)
    /\ reg_lookup = Some([key |-> TaskNameOf(ExampleName), found |-> Some(1)])
    /\ get_task_class(TaskNameOf(ExampleName)) = Some(1)

(***************************************************************************)
(* Properties of ErrorInfo.from_exception                                  *)
(***************************************************************************)
\* the keys from_exception is to put into the context for exc
CopiedKeys(exc) ==
    (IF "StagehandAutomationError" \in Bases(exc.type) THEN DOMAIN exc.context ELSE {})
      \cup (IF "OSError" \in Bases(exc.type) /\ exc.errno # None THEN {"errno"} ELSE {})
      \cup (IF "OSError" \in Bases(exc.type) /\ exc.filename # None
            THEN {"filename"} ELSE {})

\* C32: after set_error(e) the ErrorInfo built by from_exception carries the
\* error_code and the context items of e when e is a domain error and no
\* code and no copied items otherwise; for an OS-level error the context
\* also holds errno and filename when e has them; a key added later to the
\* ErrorInfo's context leaves the context of e as it was raised.
C32_FromExceptionCopies ==
    (res_result.error_info # None)
       => LET e == The(res_error)
              info == The(res_result.error_info)
              domain == "StagehandAutomationError" \in Bases(e.type)
          IN  /\ info.error_code = (IF domain THEN e.error_code ELSE None)
              /\ (DOMAIN info.context) \ {"note"} = CopiedKeys(e)
              /\ domain => \A k \in DOMAIN e.context : info.context[k] = e.context[k]
              /\ "errno" \in CopiedKeys(e) => info.context["errno"] = The(e.errno)
              /\ "filename" \in CopiedKeys(e)
                    => info.context["filename"] = The(e.filename)
              /\ e \in ResultErrors

C32_Witness ==
    /\ res_error = Some(LoginErrWithContext)
    /\ res_result.error_info # None
    /\ The(res_result.error_info).error_code = Some("E1001")
    /\ DOMAIN The(res_result.error_info).context = {"user", "note"}

\* an OS-level error with errno and filename has been recorded
C32_WitnessOSError ==
    /\ res_error = Some(FileErr)
    /\ res_result.error_info # None
    /\ DOMAIN The(res_result.error_info).context = {"errno", "filename"}

(***************************************************************************)
(* Properties of the shared formatters                                     *)
(***************************************************************************)
\* an enabled channel has been handed a result and got a message for it
Formatted ==
    /\ (chan_pc \in {"line_pushing", "line_done"} /\ LineEnabled)
          => chan_message # None
    /\ (chan_pc = "email_done" /\ EmailEnabled) => transport_log # << >>

\* C33 as claimed: the formatters return a message for every ExecutionResult,
\* one whose end_time is not set included.
C33_Claimed == Formatted

\* the same for results whose end_time is set
FormattedWhenFinished == (chan_handed.end_time # None) => Formatted

(***************************************************************************)
(* Properties of StagehandHelper                                           *)
(***************************************************************************)
HelperEvents(ev) == { i \in DOMAIN h_log : h_log[i].ev = ev }

\* C38: click_the_button and type_into_field make at most max_retries
\* attempts, return on the first attempt that succeeds without a further
\* attempt, and when no attempt succeeds raise StagehandAutomationError after
\* max_retries attempts, never the error of the page.
C38_HelperBoundedAttempts ==
    /\ Cardinality(HelperEvents("attempt")) <= h_max_retries
    /\ \A i \in HelperEvents("ok") : i = Len(h_log) /\ h_pc = "returned"
    /\ (h_pc = "returned") => HelperEvents("ok") # {}
    /\ (h_pc = "raised")
          => /\ h_raised # None
             /\ The(h_raised).type = "StagehandAutomationError"
             /\ The(h_raised) \notin PageErrors
             /\ HelperEvents("ok") = {}
             /\ Cardinality(HelperEvents("attempt")) = h_max_retries

C38_Witness ==
    /\ h_pc = "raised"
    /\ h_max_retries = 3
    /\ Cardinality(HelperEvents("attempt")) = 3
    /\ \E i \in HelperEvents("failed") : h_log[i].exc = Some(TimeoutErr)

\* every attempt after the first directly follows a sleep of 2^attempt
\* seconds of the attempt before it, and nothing sleeps after the last one
BackoffBetweenAttempts ==
    /\ \A i \in HelperEvents("attempt") :
          (h_log[i].n >= 1)
             => /\ i > 1
                /\ h_log[i - 1] = HelperEvent("sleep", Pow2(h_log[i].n - 1), None)
    /\ (h_pc \in {"returned", "raised"} /\ h_log # << >>)
          => h_log[Len(h_log)].ev # "sleep"

\* C39 as claimed: consecutive attempts are separated by a backoff sleep of
\* 2^attempt seconds for every way an attempt can fail, type_into_field
\* finding no input element included; no sleep follows the last attempt.
C39_Claimed == BackoffBetweenAttempts

\* the same for calls in which every failed attempt raised
BackoffAfterRaisingAttempts ==
    (HelperEvents("nothing") = {}) => BackoffBetweenAttempts

(***************************************************************************)
(* Properties of LoginTask                                                 *)
(***************************************************************************)
\* the running attempt of task() failed because a page operation raised a
\* network-class error: the last attempt of the helper method that gave up,
\* or the observe() call of task() itself
FailedOnNetworkError ==
    \/ /\ h_pc = "raised"
       /\ login_at.attempt = attempt
       /\ h_log # << >>
       /\ h_log[Len(h_log)].ev = "failed"
       /\ The(h_log[Len(h_log)].exc).type \in NetworkErrorClasses
    \/ /\ last_exception # None
       /\ The(last_exception).id = attempt
       /\ The(last_exception).type \in NetworkErrorClasses

\* C34 as claimed: whenever a page operation of task(), one made through
\* StagehandHelper included, fails with TimeoutError or ConnectionError and
\* attempts remain, execute() makes another attempt.
C34_Claimed ==
    (task_pc = "raised" /\ attempt < max_retries) => ~ FailedOnNetworkError

\* the same for the page operation task() performs itself
ObserveErrorsRetried ==
    (task_pc = "raised" /\ attempt < max_retries /\ last_exception # None)
       => The(last_exception).type \notin NetworkErrorClasses

(***************************************************************************)
(* Properties of the session pairing                                       *)
(***************************************************************************)
\* the number of events `name` among the first k entries of session_log
EventsBefore(k, name) ==
    Cardinality({ i \in 1 .. k : session_log[i].ev = name })

\* close() is invoked only on a session whose init() completed; init() runs
\* only when no initialised session is held; an execute() that returned
\* leaves no initialised session; a run whose init() raised invokes no close()
SessionPairing ==
    /\ \A i \in 1 .. Len(session_log) :
          /\ session_log[i].ev = "close" => EventsBefore(i, "init_done") >= 1
          /\ session_log[i].ev = "init"
                => EventsBefore(i, "init_done") = EventsBefore(i, "close_done")
    /\ (auto_pc = "completed") => ~ stagehand_initialized
    /\ \A r \in 1 .. executes : Count(r, "init_failed") > 0 => Count(r, "close") = 0

\* close() calls never outnumber the init() calls that completed
ClosesWithinInits ==
    EventsBefore(Len(session_log), "close") <= EventsBefore(Len(session_log), "init_done")

\* C35 as claimed: across any sequence of execute() calls on one instance the
\* session pairing holds and the number of close() calls never exceeds the
\* number of completed init() calls.
C35_Claimed == SessionPairing /\ ClosesWithinInits

\* the same when no close() has failed
PairingWithoutCloseFailure ==
    (EventsBefore(Len(session_log), "close_failed") = 0) => ClosesWithinInits

(***************************************************************************)
(* Properties of retry_history across execute() calls                      *)
(***************************************************************************)
\* retry_history numbers its entries 1, 2, ... and is no longer than
\* max_retries
HistoryOfCurrentExecute ==
    /\ Len(retry_history) <= max_retries
    /\ \A i \in DOMAIN retry_history : retry_history[i].attempt = i

\* C36 as claimed: after any sequence of execute() calls on one instance,
\* retry_history holds exactly one entry per failed attempt of the current
\* execute(), numbered consecutively from 1, and never more than max_retries.
C36_Claimed == HistoryOfCurrentExecute

\* the same during the first execute() of an instance
HistoryOfFirstExecute == (ExecutesStarted <= 1) => HistoryOfCurrentExecute

(***************************************************************************)
(* Properties of a failed ExecutionResult                                  *)
(***************************************************************************)
\* C37: once set_error has been applied to the result of an automation, no
\* later step (add_detail, another set_error, the end of a later execute()
\* whose automation() returned) sets success back to true or clears
\* error_info.
C37_FailurePermanent ==
    [][ (execution_result.error_info # None)
           => /\ execution_result'.success = FALSE
              /\ execution_result'.error_info # None ]_vars

C37_Witness ==
    /\ executes = 2
    /\ auto_pc = "completed"
    /\ Count(1, "automation_raised") = 1
    /\ Count(2, "automation_returned") = 1
    /\ execution_result.success = FALSE
    /\ execution_result.error_info # None
    /\ auto_returned = Some(execution_result)

=============================================================================
